---- MODULE Spec2Model ----
(***************************************************************************)
(* The agent System of internal/agent (system.go, types.go): the Task      *)
(* state machine, ExecuteTask, ExecuteTaskChain, the bounded taskQueue and *)
(* its background consumer processTasks, and the results store.            *)
(*                                                                         *)
(* A pointer is a sequence of length at most one: Nil is the nil pointer,  *)
(* <<r>> points to the record r.  An error is Nil or its message, and a    *)
(* message is a tuple of words (the empty string is the empty tuple).      *)
(* ExecuteTask blocks inside agent.Execute (a language-model request, a    *)
(* child process, a file operation), so every execution is two steps: the  *)
(* part up to the Agent call and the part after the Agent has returned.    *)
(***************************************************************************)
EXTENDS Integers, Sequences, FiniteSets, TLC

\* ------------------------------------------------------------------ bounds
NumTasks == 2
NumCallers == 1
MaxChain == 2
MaxCalls == 3
MaxQueue == 2
NumHandlers == 2
MaxClock == 1
MaxBuilt == 2
MaxCommands == 3
MaxDirect == 1

\* --------------------------------------------------------------- constants
ChannelCapacity == 100
\* net/http status codes
StatusOK == 200
StatusBadRequest == 400
StatusInternalServerError == 500

QueueCap == IF MaxQueue < ChannelCapacity THEN MaxQueue ELSE ChannelCapacity

Tasks == 1..NumTasks
Callers == 1..NumCallers
Consumer == 0
Threads == Callers \cup {Consumer}
Handlers == 1..NumHandlers

Nil == <<>>

TaskPending == "pending"
TaskRunning == "running"
TaskCompleted == "completed"
TaskFailed == "failed"
TaskStatus == {TaskPending, TaskRunning, TaskCompleted, TaskFailed}

PlanningAgent == "planning"
FileAgent == "file"
TerminalAgent == "terminal"
DebugAgent == "debug"
\* AgentType is a string type: a Task may carry a kind outside the four.
OtherKind == "other"
AgentType == {PlanningAgent, FileAgent, TerminalAgent, DebugAgent, OtherKind}

\* The registry built by NewSystem: one Agent per registered kind.
agents == [k \in {PlanningAgent, FileAgent, TerminalAgent, DebugAgent} |-> k]

TaskResult(success, data, error) ==
    [Success |-> success, Data |-> data, Error |-> error]

\* What agent.Execute can return for a Task of kind k:
\*   "ok"   a result with Success = TRUE and a nil error
\*   "soft" a result with Success = FALSE and a nil error
\*   "hard" a nil result and an error
AgentOutcomes(k) ==
    CASE k = PlanningAgent -> {"ok", "hard"}
      [] k = DebugAgent    -> {"ok", "hard"}
      [] k = FileAgent     -> {"ok", "soft", "hard"}
      [] k = TerminalAgent -> {"ok", "soft", "hard"}
      [] OTHER             -> {}

\* agent.Execute(ctx, task) as the pair <<result pointer, error>>.
AgentExecute(k, o) ==
    CASE o = "ok" -> <<  <<TaskResult(TRUE, <<k, "data">>, <<>>)>>, Nil >>
      [] o = "soft" /\ k = FileAgent ->
                     <<  <<TaskResult(FALSE, Nil, <<"file manager error">>)>>, Nil >>
      [] o = "soft" /\ k = TerminalAgent ->
                     <<  <<TaskResult(FALSE, <<k, "data">>, <<>>)>>, Nil >>
      [] OTHER -> << Nil, <<"agent error", k>> >>

VARIABLES
    kind,          \* Task.Type of every Task
    status,        \* Task.Status
    result,        \* Task.Result (pointer)
    results,       \* System.results: task id -> result pointer (Nil: absent)
    taskQueue,     \* System.taskQueue: the buffered channel
    pc,            \* where every thread is
    op,            \* the entry point a thread is in
    cur,           \* the Task a thread is executing or sending
    chain,         \* the list passed to ExecuteTaskChain
    idx,           \* the position of the chain's loop
    chainResults,  \* the local variable results of ExecuteTaskChain
    ret,           \* what the thread's latest ExecuteTask returned
    chainRet,      \* what the caller's latest ExecuteTaskChain returned
    calls,         \* number of entry-point calls made so far
    agentCalls,    \* history: number of Agent invocations per Task
    invoked,       \* history: chain positions whose Agent the chain invoked
    submitLog,     \* history: Tasks whose QueueTask has returned, in order
    deqLog,        \* history: Tasks the consumer has dequeued, in order
    consumerDone   \* history: ExecuteTask calls of the consumer that returned

\* The unsynchronised accesses to the shared memory, one step per access
\* begin and end (RaceSpec).
VARIABLES
    access,        \* the shared location a thread is reading or writing now
    fatal,         \* the Go runtime has aborted the process
    clock,         \* time.Now().UnixNano()
    llmModel,      \* GroqClient.model
    hpc,           \* where every HTTP handler goroutine is
    call,          \* the request a handler is serving, and what it did for it
    issued,        \* history: the ids generateTaskID returned, in order
    owner,         \* history: which built Task's result a results entry holds
    shellPresent,  \* the host has the shell that ExecuteCommand starts
    cmdPc,         \* where the caller of the Command Executor is
    commands,      \* ExecuteCommands: the list it was called with
    cmdResults,    \* ExecuteCommands: results
    ran,           \* history: the commands started, and what each run did
    cmdRet,        \* what ExecuteCommands returned (pointer)
    lastCall,      \* history: the last ExecuteCommand call, and its return
    dirs,          \* file tree: the directories
    files,         \* file tree: the regular files, path -> content
    lastFile,      \* history: the last File Task, the tree before it, its outcome
    mainPc         \* where main() is: serving, in srv.Shutdown, or the process is gone

sysVars == <<kind, status, result, results, taskQueue, pc, op, cur, chain, idx,
             chainResults, ret, chainRet, calls, agentCalls, invoked,
             submitLog, deqLog, consumerDone>>

raceVars == <<access, fatal>>
entryVars == <<clock, llmModel, hpc, call, issued, owner>>
cmdVars == <<shellPresent, cmdPc, commands, cmdResults, ran, cmdRet, lastCall>>
fileVars == <<dirs, files, lastFile>>
procVars == <<mainPc>>

\* The variables the System's coarse-grained actions leave alone.
extVars == <<raceVars, entryVars, cmdVars, fileVars, procVars>>

vars == <<sysVars, extVars>>

\* The workspace directory every request names, as path components.
Dir == <<"/", "w">>

\* A handler goroutine that serves no request.
NoCall ==
    [ endpoint |-> "none", body |-> Nil, task |-> Nil, serial |-> 0,
      nbuilt |-> 0, invoked |-> {}, asked |-> <<>>, env |-> Nil, out |-> Nil,
      resp |-> Nil ]

\* The rest values of the variables outside the System's own state.
ExtInit ==
    /\ access = [th \in Threads |-> Nil]
    /\ fatal = FALSE
    /\ clock = 0
    /\ llmModel = <<>>
    /\ hpc = [h \in Handlers |-> "idle"]
    /\ call = [h \in Handlers |-> NoCall]
    /\ issued = <<>>
    /\ owner = <<>>
    /\ shellPresent = TRUE
    /\ cmdPc = "idle"
    /\ commands = <<>>
    /\ cmdResults = <<>>
    /\ ran = <<>>
    /\ cmdRet = Nil
    /\ lastCall = Nil
    /\ dirs = {SubSeq(Dir, 1, n) : n \in 1..Len(Dir)}
    /\ files = {}
    /\ lastFile = Nil
    /\ mainPc = "serving"

NoRet == [task |-> 0, result |-> Nil, err |-> Nil]
\* at: the loop position ExecuteTaskChain had reached when it returned.
NoChainRet ==
    [tasks |-> <<>>, results |-> <<>>, err |-> Nil, done |-> FALSE, at |-> 0]

ChainLists == UNION {[1..n -> Tasks] : n \in 0..MaxChain}

Init ==
    /\ kind \in [Tasks -> AgentType]
    /\ status = [t \in Tasks |-> TaskPending]
    /\ result = [t \in Tasks |-> Nil]
    /\ results = [t \in Tasks |-> Nil]
    /\ taskQueue = <<>>
    /\ pc = [th \in Threads |-> "idle"]
    /\ op = [th \in Threads |-> IF th = Consumer THEN "processTasks" ELSE "none"]
    /\ cur = [th \in Threads |-> 0]
    /\ chain = [c \in Callers |-> <<>>]
    /\ idx = [c \in Callers |-> 0]
    /\ chainResults = [c \in Callers |-> <<>>]
    /\ ret = [th \in Threads |-> NoRet]
    /\ chainRet = [c \in Callers |-> NoChainRet]
    /\ calls = 0
    /\ agentCalls = [t \in Tasks |-> 0]
    /\ invoked = [c \in Callers |-> {}]
    /\ submitLog = <<>>
    /\ deqLog = <<>>
    /\ consumerDone = 0
    /\ ExtInit

\* Mutant of exists: the lookup's second value is not looked at.
exists_Ignored(t) == TRUE

\* s.agents[task.Type]: the second value of the lookup.
exists(t) == kind[t] \in DOMAIN agents

\* fmt.Errorf("agent type %s not found", task.Type)
NotFound(t) == <<"agent type not found", kind[t]>>

\* ExecuteTask up to the Agent call, for a Task whose Agent exists:
\* task.Status = TaskRunning, then agent.Execute is entered.
EnterAgent(th, t) ==
    /\ status' = [status EXCEPT ![t] = TaskRunning]
    /\ pc' = [pc EXCEPT ![th] = "agent"]
    /\ cur' = [cur EXCEPT ![th] = t]
    /\ agentCalls' = [agentCalls EXCEPT ![t] = @ + 1]

\* A synchronous caller calls ExecuteTask(ctx, task).
ExecuteTask(c, t) ==
    /\ pc[c] = "idle"
    /\ calls < MaxCalls
    /\ calls' = calls + 1
    /\ op' = [op EXCEPT ![c] = "ExecuteTask"]
    /\ IF exists(t)
       THEN /\ EnterAgent(c, t)
            /\ ret' = [ret EXCEPT ![c] = NoRet]
       ELSE /\ ret' = [ret EXCEPT ![c] =
                          [task |-> t, result |-> Nil, err |-> NotFound(t)]]
            /\ UNCHANGED <<status, pc, cur, agentCalls>>
    /\ chainRet' = [chainRet EXCEPT ![c] = NoChainRet]
    /\ invoked' = [invoked EXCEPT ![c] = {}]
    /\ UNCHANGED <<kind, result, results, taskQueue, chain, idx, chainResults,
                   submitLog, deqLog, consumerDone>>
    /\ UNCHANGED extVars

\* A synchronous caller calls ExecuteTaskChain(ctx, tasks).
ExecuteTaskChain(c, list) ==
    /\ pc[c] = "idle"
    /\ calls < MaxCalls
    /\ calls' = calls + 1
    /\ op' = [op EXCEPT ![c] = "ExecuteTaskChain"]
    /\ pc' = [pc EXCEPT ![c] = "loop"]
    /\ chain' = [chain EXCEPT ![c] = list]
    /\ idx' = [idx EXCEPT ![c] = 1]
    /\ chainResults' = [chainResults EXCEPT ![c] = <<>>]
    /\ chainRet' = [chainRet EXCEPT ![c] = NoChainRet]
    /\ ret' = [ret EXCEPT ![c] = NoRet]
    /\ invoked' = [invoked EXCEPT ![c] = {}]
    /\ UNCHANGED <<kind, status, result, results, taskQueue, cur,
                   agentCalls, submitLog, deqLog, consumerDone>>
    /\ UNCHANGED extVars

\* ExecuteTaskChain returns <<res, err>> to its caller.
ChainReturn(c, res, err) ==
    /\ chainRet' = [chainRet EXCEPT ![c] =
           [tasks |-> chain[c], results |-> res, err |-> err, done |-> TRUE,
            at |-> idx[c]]]
    /\ pc' = [pc EXCEPT ![c] = "idle"]
    /\ chain' = [chain EXCEPT ![c] = <<>>]
    /\ idx' = [idx EXCEPT ![c] = 0]
    /\ chainResults' = [chainResults EXCEPT ![c] = <<>>]

\* The head of the chain's loop: the range is exhausted, or ExecuteTask is
\* called on the next Task (and returns at once when no Agent exists).
ChainLoop(c) ==
    /\ pc[c] = "loop"
    /\ IF idx[c] > Len(chain[c])
       THEN /\ ChainReturn(c, chainResults[c], Nil)
            /\ UNCHANGED <<status, cur, agentCalls, ret, invoked>>
       ELSE LET t == chain[c][idx[c]] IN
            IF exists(t)
            THEN /\ EnterAgent(c, t)
                 /\ invoked' = [invoked EXCEPT ![c] = @ \cup {idx[c]}]
                 /\ UNCHANGED <<ret, chainRet, chain, idx, chainResults>>
            ELSE /\ ret' = [ret EXCEPT ![c] =
                          [task |-> t, result |-> Nil, err |-> NotFound(t)]]
                 /\ ChainReturn(c, chainResults[c], NotFound(t))
                 /\ UNCHANGED <<status, cur, agentCalls, invoked>>
    /\ UNCHANGED <<kind, result, results, taskQueue, op, calls, submitLog,
                   deqLog, consumerDone>>
    /\ UNCHANGED extVars

\* What ExecuteTask returns once agent.Execute has returned out:
\* <<task.Result, err>> on an error, <<result, nil>> otherwise.
Returned(out) ==
    IF out[2] # Nil
    THEN << <<TaskResult(FALSE, Nil, out[2])>>, out[2] >>
    ELSE << out[1], Nil >>

\* Mutant of Finish: the failure result is stored like a success.
Finish_StoreFailure(t, out) ==
    IF out[2] # Nil
    THEN /\ status' = [status EXCEPT ![t] = TaskFailed]
         /\ result' = [result EXCEPT ![t] = Returned(out)[1]]
         /\ results' = [results EXCEPT ![t] = Returned(out)[1]]
    ELSE /\ status' = [status EXCEPT ![t] = TaskCompleted]
         /\ result' = [result EXCEPT ![t] = out[1]]
         /\ results' = [results EXCEPT ![t] = out[1]]

\* The rest of ExecuteTask once agent.Execute has returned out: the Task's
\* status and result, and the results store.
Finish(t, out) ==
    IF out[2] # Nil
    THEN /\ status' = [status EXCEPT ![t] = TaskFailed]
         /\ result' = [result EXCEPT ![t] = Returned(out)[1]]
         /\ UNCHANGED results
    ELSE /\ status' = [status EXCEPT ![t] = TaskCompleted]
         /\ result' = [result EXCEPT ![t] = out[1]]
         /\ results' = [results EXCEPT ![t] = out[1]]

\* Mutant of ChainStep: the loop does not break on Success = FALSE.
ChainStep_NoBreak(c, rv) ==
    IF rv[2] # Nil
    THEN ChainReturn(c, chainResults[c], rv[2])
    ELSE /\ chainResults' = [chainResults EXCEPT ![c] = Append(@, rv[1][1])]
         /\ idx' = [idx EXCEPT ![c] = @ + 1]
         /\ pc' = [pc EXCEPT ![c] = "loop"]
         /\ UNCHANGED <<chainRet, chain>>

\* The body of the chain's loop after ExecuteTask has returned rv.
ChainStep(c, rv) ==
    IF rv[2] # Nil
    THEN ChainReturn(c, chainResults[c], rv[2])
    ELSE IF ~rv[1][1].Success
         THEN ChainReturn(c, Append(chainResults[c], rv[1][1]), Nil)
         ELSE /\ chainResults' = [chainResults EXCEPT ![c] = Append(@, rv[1][1])]
              /\ idx' = [idx EXCEPT ![c] = @ + 1]
              /\ pc' = [pc EXCEPT ![c] = "loop"]
              /\ UNCHANGED <<chainRet, chain>>

\* agent.Execute returns in thread th: the rest of ExecuteTask, and what
\* the caller of ExecuteTask does with the return values.
AgentReturn(th, o) ==
    /\ pc[th] = "agent"
    /\ o \in AgentOutcomes(kind[cur[th]])
    /\ LET t == cur[th]
           out == AgentExecute(kind[t], o)
           rv == Returned(out)
       IN
       /\ Finish(t, out)
       /\ ret' = [ret EXCEPT ![th] = [task |-> t, result |-> rv[1], err |-> rv[2]]]
       /\ IF op[th] = "ExecuteTaskChain"
          THEN ChainStep(th, rv)
          ELSE /\ pc' = [pc EXCEPT ![th] = "idle"]
               /\ UNCHANGED <<chainResults, idx, chainRet, chain>>
    /\ cur' = [cur EXCEPT ![th] = 0]
    /\ consumerDone' = IF th = Consumer THEN consumerDone + 1 ELSE consumerDone
    /\ UNCHANGED <<kind, taskQueue, op, calls, agentCalls, invoked,
                   submitLog, deqLog>>
    /\ UNCHANGED extVars

\* A caller calls QueueTask(task): it reaches the channel send.
QueueTask(c, t) ==
    /\ pc[c] = "idle"
    /\ calls < MaxCalls
    /\ calls' = calls + 1
    /\ op' = [op EXCEPT ![c] = "QueueTask"]
    /\ pc' = [pc EXCEPT ![c] = "send"]
    /\ cur' = [cur EXCEPT ![c] = t]
    /\ ret' = [ret EXCEPT ![c] = NoRet]
    /\ chainRet' = [chainRet EXCEPT ![c] = NoChainRet]
    /\ invoked' = [invoked EXCEPT ![c] = {}]
    /\ UNCHANGED <<kind, status, result, results, taskQueue, chain, idx,
                   chainResults, agentCalls, submitLog, deqLog, consumerDone>>
    /\ UNCHANGED extVars

\* Mutant of QueueSend: a send that gives up when the buffer is full.
QueueSend_Drop(c) ==
    /\ pc[c] = "send"
    /\ taskQueue' = IF Len(taskQueue) < QueueCap
                    THEN Append(taskQueue, cur[c]) ELSE taskQueue
    /\ submitLog' = Append(submitLog, cur[c])
    /\ pc' = [pc EXCEPT ![c] = "idle"]
    /\ cur' = [cur EXCEPT ![c] = 0]
    /\ UNCHANGED <<kind, status, result, results, op, chain, idx,
                   chainResults, ret, chainRet, calls, agentCalls, invoked,
                   deqLog, consumerDone>>
    /\ UNCHANGED extVars

\* s.taskQueue <- task: completes only while the buffer has room.
QueueSend(c) ==
    /\ pc[c] = "send"
    /\ Len(taskQueue) < QueueCap
    /\ taskQueue' = Append(taskQueue, cur[c])
    /\ submitLog' = Append(submitLog, cur[c])
    /\ pc' = [pc EXCEPT ![c] = "idle"]
    /\ cur' = [cur EXCEPT ![c] = 0]
    /\ UNCHANGED <<kind, status, result, results, op, chain, idx,
                   chainResults, ret, chainRet, calls, agentCalls, invoked,
                   deqLog, consumerDone>>
    /\ UNCHANGED extVars

\* The consumer receives the next Task from the channel and calls
\* ExecuteTask on it; an error is dropped and the loop continues.
Receive ==
    /\ taskQueue # <<>>
    /\ LET t == Head(taskQueue) IN
       /\ taskQueue' = Tail(taskQueue)
       /\ deqLog' = Append(deqLog, t)
       /\ IF exists(t)
          THEN /\ EnterAgent(Consumer, t)
               /\ UNCHANGED <<ret, consumerDone>>
          ELSE /\ ret' = [ret EXCEPT ![Consumer] =
                          [task |-> t, result |-> Nil, err |-> NotFound(t)]]
               /\ consumerDone' = consumerDone + 1
               /\ UNCHANGED <<status, pc, cur, agentCalls>>
    /\ UNCHANGED <<kind, result, results, op, chain, idx, chainResults,
                   chainRet, calls, invoked, submitLog>>
    /\ UNCHANGED extVars

\* Mutant of processTasks: every received Task is executed in a goroutine
\* of its own, so the loop receives again while ExecuteTask is running.
processTasks_Spawn == Receive

\* One iteration of processTasks, the single consumer started by NewSystem:
\* the loop is back at the receive only when ExecuteTask has returned.
processTasks ==
    /\ pc[Consumer] = "idle"
    /\ Receive

\* s.results[taskID]: the pair <<result, exists>>.
GetTaskResult(taskID) == <<results[taskID], results[taskID] # Nil>>

Next ==
    \/ \E c \in Callers, t \in Tasks : ExecuteTask(c, t)
    \/ \E c \in Callers, list \in ChainLists : ExecuteTaskChain(c, list)
    \/ \E c \in Callers : ChainLoop(c)
    \/ \E th \in Threads, o \in {"ok", "soft", "hard"} : AgentReturn(th, o)
    \/ \E c \in Callers, t \in Tasks : QueueTask(c, t)
    \/ \E c \in Callers : QueueSend(c)
    \/ processTasks

Spec == Init /\ [][Next]_vars

\* The consumer goroutine is scheduled whenever it can run, and every call
\* of agent.Execute returns.
Fairness ==
    /\ WF_vars(processTasks)
    /\ \A th \in Threads : WF_vars(\E o \in {"ok", "soft", "hard"} : AgentReturn(th, o))

FairSpec == Spec /\ Fairness

TypeOK ==
    /\ kind \in [Tasks -> AgentType]
    /\ status \in [Tasks -> TaskStatus]
    /\ pc \in [Threads -> {"idle", "agent", "loop", "send"}]
    /\ cur \in [Threads -> Tasks \cup {0}]
    /\ calls \in 0..MaxCalls

\* ------------------------------------------------------------------ claims
Terminal == {TaskCompleted, TaskFailed}

IsPrefix(a, b) == Len(a) <= Len(b) /\ SubSeq(b, 1, Len(a)) = a

\* The step in which thread th returns from agent.Execute and ExecuteTask.
Returns(th) == pc[th] = "agent" /\ pc'[th] # "agent"

\* The caller's latest ExecuteTaskChain returned after a failure: with an
\* error, or with a last result whose Success is false.
ChainFailed(c) ==
    /\ chainRet[c].done
    /\ \/ chainRet[c].err # Nil
       \/ /\ Len(chainRet[c].results) > 0
          /\ ~chainRet[c].results[Len(chainRet[c].results)].Success

LegalTransitions ==
    {<<TaskPending, TaskRunning>>, <<TaskRunning, TaskCompleted>>,
     <<TaskRunning, TaskFailed>>}

\* C1: the status of every Task changes only along Pending -> Running ->
\* Completed or Pending -> Running -> Failed; no step moves a Task from
\* Completed or Failed back to Running or Pending, and none makes it
\* terminal without Running in between.
C1_StatusForwardOnly ==
    [][\A t \in Tasks :
          status'[t] # status[t] => <<status[t], status'[t]>> \in LegalTransitions]_vars

\* C2: in every state and for every Task, the result is non-nil if and only
\* if the status is Completed or Failed.
C2_ResultIffTerminal ==
    \A t \in Tasks : (result[t] # Nil) <=> (status[t] \in Terminal)

\* C3: ExecuteTaskChain runs its Tasks in list order and is fail-fast: while
\* the chain is running, the Agents invoked so far are exactly those of the
\* positions up to the loop position and every earlier result has
\* Success = TRUE; once the chain has returned after a failure at position
\* k, the chain invoked no Agent of a position after k, every result before
\* k has Success = TRUE, and a later Task whose Agent nobody invoked is
\* still Pending.
C3_ChainFailFast ==
    \A c \in Callers :
        /\ (op[c] = "ExecuteTaskChain" /\ pc[c] \in {"loop", "agent"}) =>
              /\ Len(chainResults[c]) = idx[c] - 1
              /\ \A i \in 1..Len(chainResults[c]) : chainResults[c][i].Success
              /\ invoked[c] = IF pc[c] = "agent" THEN 1..idx[c]
                                                 ELSE 1..(idx[c] - 1)
        /\ ChainFailed(c) =>
              LET r == chainRet[c] IN
              /\ invoked[c] \subseteq 1..r.at
              /\ \A i \in 1..(r.at - 1) :
                    i <= Len(r.results) /\ r.results[i].Success
              /\ \A j \in (r.at + 1)..Len(r.tasks) :
                    agentCalls[r.tasks[j]] = 0 => status[r.tasks[j]] = TaskPending

\* A chain has returned after its first Task failed, and the second Task,
\* a different one, is still Pending.
C3_Witness ==
    \E c \in Callers :
        /\ ChainFailed(c)
        /\ chainRet[c].at = 1
        /\ Len(chainRet[c].tasks) = 2
        /\ chainRet[c].tasks[2] # chainRet[c].tasks[1]
        /\ invoked[c] = {1}
        /\ status[chainRet[c].tasks[2]] = TaskPending

\* C4: when the Task at position k is the first of a chain to fail,
\* ExecuteTaskChain returns exactly k results and the last one is the
\* failing Task's result with Success = FALSE, for a soft failure and for
\* a hard failure raised by the Agent alike.
C4_ChainReturnsFailingResult ==
    \A c \in Callers :
        (ChainFailed(c) /\ chainRet[c].at \in invoked[c]) =>
            /\ Len(chainRet[c].results) = chainRet[c].at
            /\ ~chainRet[c].results[chainRet[c].at].Success

\* C5: whenever ExecuteTask found an Agent, then on return the results
\* store maps the Task's id to the result this execution returned, also
\* when the Agent raised a hard failure.
C5_ResultStored ==
    [][\A th \in Threads :
          Returns(th) => results'[cur[th]] = ret'[th].result]_vars

\* C6: when ExecuteTask returns for a Task whose Agent was invoked, the
\* Task is Failed if the Agent returned Success = FALSE or raised a hard
\* failure, and Completed if the Agent returned Success = TRUE.
C6_StatusMatchesOutcome ==
    [][\A th \in Threads :
          Returns(th) =>
              status'[cur[th]] =
                  IF ret'[th].err # Nil \/ ~ret'[th].result[1].Success
                  THEN TaskFailed ELSE TaskCompleted]_vars

\* C7: ExecuteTask on a Task whose kind has no registered Agent returns a
\* nil result and an error naming the kind, and invokes no Agent, changes no
\* status and leaves the results store alone; such a Task is never Running
\* or Completed.
C7_NoAgentNoEffect ==
    /\ [](\A t \in Tasks :
            kind[t] \notin DOMAIN agents =>
                /\ status[t] = TaskPending
                /\ result[t] = Nil
                /\ results[t] = Nil
                /\ agentCalls[t] = 0)
    /\ [][\A th \in Threads :
            (ret'[th] # ret[th] /\ ret'[th].task \in Tasks
                /\ kind[ret'[th].task] \notin DOMAIN agents) =>
                /\ ret'[th].result = Nil
                /\ ret'[th].err = <<"agent type not found", kind[ret'[th].task]>>
                /\ UNCHANGED <<status, result, results, agentCalls>>]_vars

\* ExecuteTask has returned the not-found error for a Task of an
\* unregistered kind.
C7_Witness ==
    \E th \in Threads :
        /\ ret[th].task \in Tasks
        /\ kind[ret[th].task] = OtherKind
        /\ ret[th].err = <<"agent type not found", OtherKind>>
        /\ status[ret[th].task] = TaskPending

\* C8: the queue never holds more than its capacity (at most 100); every
\* Task whose QueueTask has returned is still in the queue or was dequeued
\* by the consumer, once and in order; a dequeued Task is passed to
\* ExecuteTask in the same step; and a submitter at a full queue stays
\* blocked.
C8_QueueBoundedNoLoss ==
    /\ [](/\ Len(taskQueue) <= QueueCap
          /\ QueueCap <= ChannelCapacity
          /\ submitLog = deqLog \o taskQueue)
    /\ [][/\ \A c \in Callers :
                (pc[c] = "send" /\ Len(taskQueue) >= QueueCap) => pc'[c] = "send"
          /\ deqLog' # deqLog =>
                LET t == Head(taskQueue) IN
                /\ deqLog' = Append(deqLog, t)
                /\ IF kind[t] \in DOMAIN agents
                   THEN cur'[Consumer] = t /\ agentCalls'[t] = agentCalls[t] + 1
                   ELSE ret'[Consumer].task = t /\ ret'[Consumer].err # Nil]_vars

\* The queue is full and a submitter is blocked in the send.
C8_Witness ==
    \E c \in Callers :
        /\ pc[c] = "send"
        /\ Len(taskQueue) = QueueCap
        /\ Len(submitLog) = QueueCap

\* C10: the consumer executes queued Tasks one at a time and in submission
\* order: at most one dequeued Task has an ExecuteTask call that has not
\* returned, the dequeued Tasks are a prefix of the submitted ones, and the
\* consumer dequeues only when every earlier ExecuteTask call has returned.
C10_OneAtATimeFIFO ==
    /\ [](/\ Len(deqLog) - consumerDone \in {0, 1}
          /\ (Len(deqLog) - consumerDone = 1) <=> (pc[Consumer] = "agent")
          /\ pc[Consumer] = "agent" => cur[Consumer] = deqLog[Len(deqLog)]
          /\ IsPrefix(deqLog, submitLog))
    /\ [][deqLog' # deqLog => Len(deqLog) = consumerDone]_vars

\* The consumer is executing the second of two different Tasks it has
\* dequeued.
C10_Witness ==
    /\ Len(deqLog) = 2
    /\ deqLog[1] # deqLog[2]
    /\ pc[Consumer] = "agent"
    /\ consumerDone = 1

Submitted(t) == \E i \in 1..Len(submitLog) : submitLog[i] = t

\* C9: under weak fairness of the consumer and of every Agent call, every
\* Task whose QueueTask has returned eventually is Completed or Failed.
C9_SubmittedTerminates ==
    \A t \in Tasks : Submitted(t) ~> (status[t] \in Terminal)

\* Lemma: under the same fairness, every submitted Task whose kind has a
\* registered Agent eventually is Completed or Failed, whatever happened to
\* the Tasks queued before it: no failure stops the consumer.
RegisteredSubmittedTerminates ==
    \A t \in Tasks :
        (Submitted(t) /\ kind[t] \in DOMAIN agents) ~> (status[t] \in Terminal)

\* ------------------------------------------------- unsynchronised accesses
\* The System struct has no mutex: every read or write of s.results and of a
\* Task's Status and Result is a plain memory access.  RaceSpec runs the
\* same code as Spec with one step where an access begins and one where it
\* ends (the write takes effect at its end).

\* The shared locations: the Status/Result fields of Task t, the results map.
TaskLoc(t) == <<"task", t>>
ResultsLoc == <<"results">>

\* Another thread is inside an access to the results map right now.
MapRace(th) == \E o \in Threads \ {th} : access[o] = ResultsLoc

\* The Go runtime may detect a concurrent map access and abort the process
\* ("fatal error: concurrent map writes"); it does not have to.
FatalOutcomes(th) == IF MapRace(th) THEN {TRUE, FALSE} ELSE {FALSE}

raceFrame ==
    UNCHANGED <<kind, op, chain, idx, chainResults, chainRet, agentCalls,
                invoked, submitLog, deqLog, consumerDone, entryVars,
                cmdVars, fileVars, procVars>>

\* ExecuteTask is entered with Task t in thread th: the lookup, and the
\* beginning of the write task.Status = TaskRunning.
RaceEnter(th, t) ==
    IF exists(t)
    THEN /\ pc' = [pc EXCEPT ![th] = "wRunning"]
         /\ cur' = [cur EXCEPT ![th] = t]
         /\ access' = [access EXCEPT ![th] = TaskLoc(t)]
         /\ UNCHANGED ret
    ELSE /\ ret' = [ret EXCEPT ![th] =
                       [task |-> t, result |-> Nil, err |-> NotFound(t)]]
         /\ UNCHANGED <<pc, cur, access>>

\* A synchronous caller calls ExecuteTask(ctx, task).
RaceExecuteTask(c, t) ==
    /\ ~fatal
    /\ pc[c] = "idle"
    /\ calls < MaxCalls
    /\ calls' = calls + 1
    /\ RaceEnter(c, t)
    /\ UNCHANGED <<status, result, results, taskQueue, fatal>>
    /\ raceFrame

\* A caller calls QueueTask(task) while the channel has room.
RaceQueueTask(c, t) ==
    /\ ~fatal
    /\ pc[c] = "idle"
    /\ calls < MaxCalls
    /\ calls' = calls + 1
    /\ Len(taskQueue) < QueueCap
    /\ taskQueue' = Append(taskQueue, t)
    /\ UNCHANGED <<status, result, results, pc, cur, ret, access, fatal>>
    /\ raceFrame

\* processTasks receives the next Task and calls ExecuteTask on it.
RaceReceive ==
    /\ ~fatal
    /\ pc[Consumer] = "idle"
    /\ taskQueue # <<>>
    /\ taskQueue' = Tail(taskQueue)
    /\ RaceEnter(Consumer, Head(taskQueue))
    /\ UNCHANGED <<status, result, results, calls, fatal>>
    /\ raceFrame

\* The write task.Status = TaskRunning ends; agent.Execute is entered.
RaceSetRunning(th) ==
    /\ ~fatal
    /\ pc[th] = "wRunning"
    /\ status' = [status EXCEPT ![cur[th]] = TaskRunning]
    /\ pc' = [pc EXCEPT ![th] = "agent"]
    /\ access' = [access EXCEPT ![th] = Nil]
    /\ UNCHANGED <<result, results, taskQueue, cur, ret, calls, fatal>>
    /\ raceFrame

\* agent.Execute returns; the writes of task.Status and task.Result begin.
RaceAgentReturn(th, o) ==
    /\ ~fatal
    /\ pc[th] = "agent"
    /\ o \in AgentOutcomes(kind[cur[th]])
    /\ LET rv == Returned(AgentExecute(kind[cur[th]], o)) IN
       ret' = [ret EXCEPT ![th] =
                  [task |-> cur[th], result |-> rv[1], err |-> rv[2]]]
    /\ pc' = [pc EXCEPT ![th] = "wFinal"]
    /\ access' = [access EXCEPT ![th] = TaskLoc(cur[th])]
    /\ UNCHANGED <<status, result, results, taskQueue, cur, calls, fatal>>
    /\ raceFrame

\* The writes of task.Status and task.Result end.  On an error ExecuteTask
\* returns; otherwise the write s.results[task.ID] = result begins.
RaceSetFinal(th) ==
    /\ ~fatal
    /\ pc[th] = "wFinal"
    /\ LET t == cur[th] IN
       /\ status' = [status EXCEPT ![t] =
                        IF ret[th].err # Nil THEN TaskFailed ELSE TaskCompleted]
       /\ result' = [result EXCEPT ![t] = ret[th].result]
    /\ IF ret[th].err # Nil
       THEN /\ pc' = [pc EXCEPT ![th] = "idle"]
            /\ access' = [access EXCEPT ![th] = Nil]
            /\ cur' = [cur EXCEPT ![th] = 0]
       ELSE /\ pc' = [pc EXCEPT ![th] = "wStore"]
            /\ access' = [access EXCEPT ![th] = ResultsLoc]
            /\ UNCHANGED cur
    /\ UNCHANGED <<results, taskQueue, ret, calls, fatal>>
    /\ raceFrame

\* The write s.results[task.ID] = result ends and ExecuteTask returns.
RaceStore(th) ==
    /\ ~fatal
    /\ pc[th] = "wStore"
    /\ results' = [results EXCEPT ![cur[th]] = ret[th].result]
    /\ fatal' \in FatalOutcomes(th)
    /\ pc' = [pc EXCEPT ![th] = "idle"]
    /\ access' = [access EXCEPT ![th] = Nil]
    /\ cur' = [cur EXCEPT ![th] = 0]
    /\ UNCHANGED <<status, result, taskQueue, ret, calls>>
    /\ raceFrame

\* A caller calls GetTaskResult(taskID): the read of s.results begins.
RaceGetTaskResult(c, t) ==
    /\ ~fatal
    /\ pc[c] = "idle"
    /\ calls < MaxCalls
    /\ calls' = calls + 1
    /\ pc' = [pc EXCEPT ![c] = "rGet"]
    /\ cur' = [cur EXCEPT ![c] = t]
    /\ access' = [access EXCEPT ![c] = ResultsLoc]
    /\ UNCHANGED <<status, result, results, taskQueue, ret, fatal>>
    /\ raceFrame

\* The read of s.results ends and GetTaskResult returns.
RaceGetReturn(c) ==
    /\ ~fatal
    /\ pc[c] = "rGet"
    /\ ret' = [ret EXCEPT ![c] =
                  [task |-> cur[c], result |-> GetTaskResult(cur[c])[1],
                   err |-> Nil]]
    /\ fatal' \in FatalOutcomes(c)
    /\ pc' = [pc EXCEPT ![c] = "idle"]
    /\ access' = [access EXCEPT ![c] = Nil]
    /\ cur' = [cur EXCEPT ![c] = 0]
    /\ UNCHANGED <<status, result, results, taskQueue, calls>>
    /\ raceFrame

RaceNext ==
    \/ \E c \in Callers, t \in Tasks : RaceExecuteTask(c, t)
    \/ \E c \in Callers, t \in Tasks : RaceQueueTask(c, t)
    \/ RaceReceive
    \/ \E th \in Threads : RaceSetRunning(th)
    \/ \E th \in Threads, o \in {"ok", "soft", "hard"} : RaceAgentReturn(th, o)
    \/ \E th \in Threads : RaceSetFinal(th)
    \/ \E th \in Threads : RaceStore(th)
    \/ \E c \in Callers, t \in Tasks : RaceGetTaskResult(c, t)
    \/ \E c \in Callers : RaceGetReturn(c)

RaceSpec == Init /\ [][RaceNext]_vars

\* C11: accesses to the shared state are mutually exclusive: in no state are
\* two threads at the same time inside an access to the results map, or at
\* the same time inside a write of the Status/Result of the same Task.
C11_MutualExclusion ==
    \A a \in Threads, b \in Threads :
        a # b => (access[a] = Nil \/ access[a] # access[b])

\* ------------------------------------------------------------------ strings
\* A Go string is the sequence of its characters.
UpperAlpha ==
    <<"A", "B", "C", "D", "E", "F", "G", "H", "I", "J", "K", "L", "M",
      "N", "O", "P", "Q", "R", "S", "T", "U", "V", "W", "X", "Y", "Z">>
LowerAlpha ==
    <<"a", "b", "c", "d", "e", "f", "g", "h", "i", "j", "k", "l", "m",
      "n", "o", "p", "q", "r", "s", "t", "u", "v", "w", "x", "y", "z">>

\* strings.ToLower, strings.ToUpper
ToLower(s) ==
    LET LowerChar(ch) ==
            IF \E i \in 1..Len(UpperAlpha) : UpperAlpha[i] = ch
            THEN LowerAlpha[CHOOSE i \in 1..Len(UpperAlpha) : UpperAlpha[i] = ch]
            ELSE ch
    IN  [i \in 1..Len(s) |-> LowerChar(s[i])]
ToUpper(s) ==
    LET UpperChar(ch) ==
            IF \E i \in 1..Len(LowerAlpha) : LowerAlpha[i] = ch
            THEN UpperAlpha[CHOOSE i \in 1..Len(LowerAlpha) : LowerAlpha[i] = ch]
            ELSE ch
    IN  [i \in 1..Len(s) |-> UpperChar(s[i])]

\* strings.Contains(s, sub)
Contains(s, sub) ==
    \E i \in 0..(Len(s) - Len(sub)) : SubSeq(s, i + 1, i + Len(sub)) = sub

\* strings.HasPrefix(s, prefix)
HasPrefix(s, prefix) ==
    Len(s) >= Len(prefix) /\ SubSeq(s, 1, Len(prefix)) = prefix

\* The keywords of isTerminalIntent.
SlashRun == <<"/","r","u","n">>
keywords ==
    << <<"r","u","n"," ","i","n"," ","t","e","r","m","i","n","a","l">>,
       <<"e","x","e","c","u","t","e">>,
       <<"o","p","e","n"," ","t","e","r","m","i","n","a","l">>,
       <<"r","u","n"," ","c","o","m","m","a","n","d">>,
       <<"s","h","e","l","l">>,
       <<"b","a","s","h">>,
       <<"p","o","w","e","r","s","h","e","l","l">>,
       SlashRun >>

\* Mutant of isTerminalIntent: the input is not lower-cased.
isTerminalIntent_CaseSensitive(input) ==
    \E i \in 1..Len(keywords) : Contains(input, keywords[i])

\* isTerminalIntent(input)
isTerminalIntent(input) ==
    LET inputLower == ToLower(input) IN
    \E i \in 1..Len(keywords) : Contains(inputLower, keywords[i])

\* The prefixes the Planning Agent routes on.
SlashCreateProject ==
    <<"/","c","r","e","a","t","e","-","p","r","o","j","e","c","t">>
SlashExplain == <<"/","e","x","p","l","a","i","n">>

\* ------------------------------------------------------- maps and collaborators
\* A Go map[string]interface{} is the set of its <<key, value>> pairs; the nil
\* map and the empty map are both the empty set (they read and encode alike).
NilMap == {}
Has(m, k) == \E p \in m : p[1] = k
Get(m, k) == (CHOOSE p \in m : p[1] = k)[2]

\* What the language model can answer: a text, or an error.
SubtaskPlan == <<"[{type:terminal,data:{instruction:rm -rf x}},{type:file,data:{operation:create,path:a}}]">>
ProjectJSON == <<"{name:demo,files:[{path:a,content:b}]}">>
Texts == {SubtaskPlan, ProjectJSON}
LLMError == <<"groq: 503">>
LLMReplies ==
    {[ok |-> TRUE, text |-> t] : t \in Texts} \cup {[ok |-> FALSE, text |-> <<>>]}

\* Mutant of ParsesAsProjectPlan: the error of json.Unmarshal is not looked at.
ParsesAsProjectPlan_Unchecked(text) == TRUE

\* json.Unmarshal([]byte(planJSON), &plan): only a JSON object parses into a
\* ProjectPlan; the parsed value is the structure, not the text.
ParsesAsProjectPlan(text) == text = ProjectJSON
ParseProjectPlan(text) == <<"ProjectPlan", "demo", "a", "b">>
UnmarshalError == <<"json: cannot unmarshal">>

\* What cmd.Run() can do with a command: the process error (empty: exit
\* status 0) and the two captured streams.
RunClean == [err |-> <<>>, stdout |-> <<"out">>, stderr |-> <<>>]
RunWarn == [err |-> <<>>, stdout |-> <<"out">>, stderr |-> <<"warning">>]
RunExit1 == [err |-> <<"exit status 1">>, stdout |-> <<>>, stderr |-> <<"boom">>]
\* A command that fails without a word, such as `false`.
RunQuiet == [err |-> <<"exit status 1">>, stdout |-> <<>>, stderr |-> <<>>]
\* The shell could not be started: no process, no output.
RunNoShell == [err |-> <<"exec: sh: not found">>, stdout |-> <<>>, stderr |-> <<>>]
RunOutcomes == {RunClean, RunWarn, RunExit1, RunQuiet, RunNoShell}

\* Mutant of ExecuteCommand: the process error is not folded into Error.
ExecuteCommand_StderrOnly(command, workingDir, run) ==
    LET cmdResult == [Command |-> command, WorkingDir |-> workingDir,
                      Status |-> "completed", Output |-> run.stdout,
                      Error |-> run.stderr]
    IN  [ res |-> IF run.err # <<>>
                  THEN <<[cmdResult EXCEPT !.Status = "failed"]>>
                  ELSE <<cmdResult>>,
          err |-> <<>> ]

\* CommandExecutorImpl.ExecuteCommand(command, workingDir), as the pair
\* <<record pointer, error>>, when cmd.Run() does `run`.
ExecuteCommand(command, workingDir, run) ==
    LET cmdResult == [Command |-> command, WorkingDir |-> workingDir,
                      Status |-> "completed", Output |-> run.stdout,
                      Error |-> run.stderr]
    IN  [ res |-> IF run.err # <<>>
                  THEN <<[cmdResult EXCEPT !.Status = "failed",
                                           !.Error = run.err \o <<": ">> \o run.stderr]>>
                  ELSE <<cmdResult>>,
          err |-> <<>> ]

\* What one Agent run meets in its collaborators.
Envs ==
    [llm : LLMReplies, llm2 : LLMReplies, run : RunOutcomes]

\* The Agents of a kind do not look at every collaborator: the answers nobody
\* asks for are held at one value.
EnvsFor(type) ==
    LET Unasked == [ok |-> FALSE, text |-> <<>>] IN
    CASE type = TerminalAgent -> {e \in Envs : e.llm2 = Unasked}
      [] type = DebugAgent    -> {e \in Envs : e.run = RunClean}
      [] OTHER                -> {e \in Envs : e.llm2 = Unasked /\ e.run = RunClean}

Wrap(prefix, err) == <<prefix>> \o err

\* One request to the language model: GroqClient.Chat sends the operation's
\* prompt, built from `input`, with the model the client holds at that moment.
Ask(operation, input) == [op |-> operation, input |-> input, model |-> llmModel]

\* strings.TrimSpace(s)
TrimSpace(s) ==
    LET Inked == {i \in 1..Len(s) : s[i] # " "} IN
    IF Inked = {} THEN <<>>
    ELSE SubSeq(s, CHOOSE i \in Inked : \A j \in Inked : i <= j,
                   CHOOSE i \in Inked : \A j \in Inked : i >= j)

\* Mutant of TerminalExecute: a failed command is raised as a hard failure.
TerminalExecute_RunFailureHard(task, env) ==
    IF ~Has(task.Data, "instruction")
    THEN [res |-> Nil, err |-> <<"instruction not found in task data">>,
          used |-> {}, asked |-> <<>>]
    ELSE IF ~env.llm.ok
    THEN [res |-> Nil, err |-> Wrap("failed to generate command: ", LLMError),
          used |-> {"llm"},
          asked |-> <<Ask("GenerateCommand",
                                 <<Get(task.Data, "instruction")>>)>>]
    ELSE LET command == env.llm.text
             workingDir == IF Has(task.Data, "workspace_dir")
                           THEN Get(task.Data, "workspace_dir") ELSE <<".">>
             x == ExecuteCommand(command, workingDir, env.run)
         IN  IF x.res[1].Status = "failed"
             THEN [res |-> Nil, err |-> Wrap("command failed: ", x.res[1].Error),
                   used |-> {"llm", "commandExec"},
                   asked |-> <<Ask("GenerateCommand",
                                 <<Get(task.Data, "instruction")>>)>>]
             ELSE IF x.err # <<>>
             THEN [res |-> <<TaskResult(FALSE, NilMap, x.err)>>, err |-> <<>>,
                   used |-> {"llm", "commandExec"},
                   asked |-> <<Ask("GenerateCommand",
                                 <<Get(task.Data, "instruction")>>)>>]
             ELSE [res |-> <<TaskResult(x.res[1].Error = <<>>,
                                        { <<"command", command>>,
                                          <<"output", x.res[1].Output>>,
                                          <<"error", x.res[1].Error>> },
                                        <<>>)>>,
                   err |-> <<>>,
                   used |-> {"llm", "commandExec"},
                   asked |-> <<Ask("GenerateCommand",
                                 <<Get(task.Data, "instruction")>>)>>]

\* TerminalAgentImpl.Execute(ctx, task): <<result pointer, error, collaborators
\* called>>.
TerminalExecute(task, env) ==
    IF ~Has(task.Data, "instruction")
    THEN [res |-> Nil, err |-> <<"instruction not found in task data">>,
          used |-> {}, asked |-> <<>>]
    ELSE IF ~env.llm.ok
    THEN [res |-> Nil, err |-> Wrap("failed to generate command: ", LLMError),
          used |-> {"llm"},
          asked |-> <<Ask("GenerateCommand",
                                 <<Get(task.Data, "instruction")>>)>>]
    ELSE LET command == env.llm.text
             workingDir == IF Has(task.Data, "workspace_dir")
                           THEN Get(task.Data, "workspace_dir") ELSE <<".">>
             x == ExecuteCommand(command, workingDir, env.run)
         IN  IF x.err # <<>>
             THEN [res |-> <<TaskResult(FALSE, NilMap, x.err)>>, err |-> <<>>,
                   used |-> {"llm", "commandExec"},
                   asked |-> <<Ask("GenerateCommand",
                                 <<Get(task.Data, "instruction")>>)>>]
             ELSE [res |-> <<TaskResult(x.res[1].Error = <<>>,
                                        { <<"command", command>>,
                                          <<"output", x.res[1].Output>>,
                                          <<"error", x.res[1].Error>> },
                                        <<>>)>>,
                   err |-> <<>>,
                   used |-> {"llm", "commandExec"},
                   asked |-> <<Ask("GenerateCommand",
                                 <<Get(task.Data, "instruction")>>)>>]

\* Mutant of PlanningExecute: the subtasks of the decomposition are run.
PlanningExecute_AutoRun(task, env) ==
    IF ~Has(task.Data, "request")
    THEN [res |-> Nil, err |-> <<"request data not found in task">>, used |-> {},
          asked |-> <<>>]
    ELSE LET request == Get(task.Data, "request") IN
    IF HasPrefix(request, SlashCreateProject)
    THEN \* handleProjectCreation
         IF ~env.llm.ok
         THEN [res |-> Nil,
               err |-> Wrap("LLM failed to generate project plan: ", LLMError),
               used |-> {"llm"},
               asked |-> <<Ask("PlanProject",
                             <<TrimSpace(SubSeq(request, Len(SlashCreateProject) + 1,
                                                Len(request)))>>)>>]
         ELSE IF ~ParsesAsProjectPlan(env.llm.text)
         THEN [res |-> Nil,
               err |-> <<"failed to parse project plan JSON from LLM: ">>
                       \o UnmarshalError \o <<". Raw response: ">> \o env.llm.text,
               used |-> {"llm"},
               asked |-> <<Ask("PlanProject",
                             <<TrimSpace(SubSeq(request, Len(SlashCreateProject) + 1,
                                                Len(request)))>>)>>]
         ELSE [res |-> <<TaskResult(TRUE,
                           {<<"plan", ParseProjectPlan(env.llm.text)>>}, <<>>)>>,
               err |-> <<>>, used |-> {"llm"},
               asked |-> <<Ask("PlanProject",
                             <<TrimSpace(SubSeq(request, Len(SlashCreateProject) + 1,
                                                Len(request)))>>)>>]
    ELSE IF HasPrefix(request, SlashExplain)
    THEN \* handleExplainRequest
         IF ~env.llm.ok
         THEN [res |-> Nil, err |-> LLMError, used |-> {"llm"},
               asked |-> <<Ask("Chat explain",
                             <<TrimSpace(SubSeq(request, Len(SlashExplain) + 1,
                                                Len(request)))>>)>>]
         ELSE [res |-> <<TaskResult(TRUE, {<<"explanation", env.llm.text>>}, <<>>)>>,
               err |-> <<>>, used |-> {"llm"},
               asked |-> <<Ask("Chat explain",
                             <<TrimSpace(SubSeq(request, Len(SlashExplain) + 1,
                                                Len(request)))>>)>>]
    ELSE \* createGenericPlan
         IF ~env.llm.ok
         THEN [res |-> Nil,
               err |-> <<"failed to create plan: ", "LLM failed to generate a plan: ">>
                       \o LLMError,
               used |-> {"llm"},
               asked |-> <<Ask("Chat decompose", <<request>>)>>]
         ELSE [res |-> <<TaskResult(TRUE, {<<"plan", env.llm.text>>}, <<>>)>>,
               err |-> <<>>,
               used |-> IF env.llm.text = SubtaskPlan
                        THEN {"llm", TerminalAgent, FileAgent, "commandExec",
                              "fileManager"}
                        ELSE {"llm"},
               asked |-> <<Ask("Chat decompose", <<request>>)>>]

\* PlanningAgentImpl.Execute(ctx, task)
PlanningExecute(task, env) ==
    IF ~Has(task.Data, "request")
    THEN [res |-> Nil, err |-> <<"request data not found in task">>, used |-> {},
          asked |-> <<>>]
    ELSE LET request == Get(task.Data, "request") IN
    IF HasPrefix(request, SlashCreateProject)
    THEN \* handleProjectCreation
         IF ~env.llm.ok
         THEN [res |-> Nil,
               err |-> Wrap("LLM failed to generate project plan: ", LLMError),
               used |-> {"llm"},
               asked |-> <<Ask("PlanProject",
                             <<TrimSpace(SubSeq(request, Len(SlashCreateProject) + 1,
                                                Len(request)))>>)>>]
         ELSE IF ~ParsesAsProjectPlan(env.llm.text)
         THEN [res |-> Nil,
               err |-> <<"failed to parse project plan JSON from LLM: ">>
                       \o UnmarshalError \o <<". Raw response: ">> \o env.llm.text,
               used |-> {"llm"},
               asked |-> <<Ask("PlanProject",
                             <<TrimSpace(SubSeq(request, Len(SlashCreateProject) + 1,
                                                Len(request)))>>)>>]
         ELSE [res |-> <<TaskResult(TRUE,
                           {<<"plan", ParseProjectPlan(env.llm.text)>>}, <<>>)>>,
               err |-> <<>>, used |-> {"llm"},
               asked |-> <<Ask("PlanProject",
                             <<TrimSpace(SubSeq(request, Len(SlashCreateProject) + 1,
                                                Len(request)))>>)>>]
    ELSE IF HasPrefix(request, SlashExplain)
    THEN \* handleExplainRequest
         IF ~env.llm.ok
         THEN [res |-> Nil, err |-> LLMError, used |-> {"llm"},
               asked |-> <<Ask("Chat explain",
                             <<TrimSpace(SubSeq(request, Len(SlashExplain) + 1,
                                                Len(request)))>>)>>]
         ELSE [res |-> <<TaskResult(TRUE, {<<"explanation", env.llm.text>>}, <<>>)>>,
               err |-> <<>>, used |-> {"llm"},
               asked |-> <<Ask("Chat explain",
                             <<TrimSpace(SubSeq(request, Len(SlashExplain) + 1,
                                                Len(request)))>>)>>]
    ELSE \* createGenericPlan
         IF ~env.llm.ok
         THEN [res |-> Nil,
               err |-> <<"failed to create plan: ", "LLM failed to generate a plan: ">>
                       \o LLMError,
               used |-> {"llm"},
               asked |-> <<Ask("Chat decompose", <<request>>)>>]
         ELSE [res |-> <<TaskResult(TRUE, {<<"plan", env.llm.text>>}, <<>>)>>,
               err |-> <<>>, used |-> {"llm"},
               asked |-> <<Ask("Chat decompose", <<request>>)>>]

\* Mutant of DebugExecute: the error of the analysis request is dropped.
DebugExecute_IgnoreAnalysisError(task, env) ==
    IF ~Has(task.Data, "error_output")
    THEN [res |-> Nil, err |-> <<"error_output not found in task data">>,
          used |-> {}, asked |-> <<>>]
    ELSE IF ~env.llm2.ok
    THEN [res |-> Nil, err |-> Wrap("failed to generate fix: ", LLMError),
          used |-> {"llm"},
          asked |-> <<Ask("AnalyzeError", <<Get(task.Data, "error_output"), <<>> >>),
                     Ask("Chat fix",
                         <<env.llm.text, Get(task.Data, "error_output")>>)>>]
    ELSE [res |-> <<TaskResult(TRUE,
                      { <<"analysis", env.llm.text>>, <<"fix", env.llm2.text>>,
                        <<"file", <<>> >> },
                      <<>>)>>,
          err |-> <<>>, used |-> {"llm"},
          asked |-> <<Ask("AnalyzeError", <<Get(task.Data, "error_output"), <<>> >>),
                     Ask("Chat fix",
                         <<env.llm.text, Get(task.Data, "error_output")>>)>>]

\* DebugAgentImpl.Execute(ctx, task)
DebugExecute(task, env) ==
    IF ~Has(task.Data, "error_output")
    THEN [res |-> Nil, err |-> <<"error_output not found in task data">>,
          used |-> {}, asked |-> <<>>]
    ELSE IF ~env.llm.ok
    THEN [res |-> Nil, err |-> Wrap("failed to analyze error: ", LLMError),
          used |-> {"llm"},
          asked |-> <<Ask("AnalyzeError", <<Get(task.Data, "error_output"), <<>> >>)>>]
    ELSE IF ~env.llm2.ok
    THEN [res |-> Nil, err |-> Wrap("failed to generate fix: ", LLMError),
          used |-> {"llm"},
          asked |-> <<Ask("AnalyzeError", <<Get(task.Data, "error_output"), <<>> >>),
                     Ask("Chat fix",
                         <<env.llm.text, Get(task.Data, "error_output")>>)>>]
    ELSE [res |-> <<TaskResult(TRUE,
                      { <<"analysis", env.llm.text>>, <<"fix", env.llm2.text>>,
                        <<"file", <<>> >> },
                      <<>>)>>,
          err |-> <<>>, used |-> {"llm"},
          asked |-> <<Ask("AnalyzeError", <<Get(task.Data, "error_output"), <<>> >>),
                     Ask("Chat fix",
                         <<env.llm.text, Get(task.Data, "error_output")>>)>>]

\* ------------------------------------------------------------ entry points
\* The HTTP boundary and the two request-entry points of the System:
\* a handler goroutine decodes a body, calls ProcessUserRequest or
\* HandleCommand, which build one Task and run ExecuteTask on it, and writes
\* the response.  As in ExecuteTask, the call blocks inside agent.Execute.
\* generateTaskID(): the clock reading, formatted.
generateTaskID == <<"task_", clock>>

\* json.NewDecoder(r.Body).Decode(&req): a malformed body is an error; in a
\* well-formed one a missing field decodes to the empty string.
Field(body, k) == IF Has(body.fields, k) THEN Get(body.fields, k) ELSE <<>>
Decode(body) ==
    [ err |-> ~body.wellFormed,
      Request |-> Field(body, "request"),
      Command |-> Field(body, "command"),
      Args |-> Field(body, "args"),
      Model |-> Field(body, "model"),
      WorkspaceDir |-> Field(body, "workspace_dir") ]

Malformed == [wellFormed |-> FALSE, fields |-> {}]
ProcessBody(request, model) ==
    [ wellFormed |-> TRUE,
      fields |-> {<<"request", request>>, <<"workspace_dir", Dir>>}
                 \cup (IF model = <<>> THEN {} ELSE {<<"model", model>>}) ]
CommandBody(command, args) ==
    [ wellFormed |-> TRUE,
      fields |-> {<<"command", command>>, <<"args", args>>,
                  <<"workspace_dir", Dir>>} ]

\* json.NewEncoder(w).Encode(response) for a Response: omitempty drops an
\* empty data map and an empty error string.
EncodeResponse(success, data, error) ==
    {<<"success", success>>}
    \cup (IF data = {} THEN {} ELSE {<<"data", data>>})
    \cup (IF error = <<>> THEN {} ELSE {<<"error", error>>})

\* Mutant of sendResponse: the result's Success flag is not copied.
sendResponse_AlwaysSuccess(res) ==
    [Status |-> StatusOK, Body |-> EncodeResponse(TRUE, res.Data, res.Error)]

\* Server.sendResponse(w, result): no WriteHeader, so the status is 200.
sendResponse(res) ==
    [Status |-> StatusOK, Body |-> EncodeResponse(res.Success, res.Data, res.Error)]

\* Server.sendError(w, message, status)
sendError(message, st) ==
    [Status |-> st, Body |-> EncodeResponse(FALSE, NilMap, message)]

\* A Task as an entry point builds it.
NewTask(type, data) ==
    [ID |-> generateTaskID, Type |-> type, Data |-> data,
     Status |-> TaskPending, Result |-> Nil]

\* agent.Execute(ctx, task) for the registered Agent of the Task's kind.
AgentRun(task, env) ==
    CASE task.Type = TerminalAgent -> TerminalExecute(task, env)
      [] task.Type = PlanningAgent -> PlanningExecute(task, env)
      [] task.Type = DebugAgent    -> DebugExecute(task, env)

\* The handler answers without a Task having been built.
Answer(h, endpoint, body, out, resp) ==
    /\ hpc' = [hpc EXCEPT ![h] = "done"]
    /\ call' = [call EXCEPT ![h] =
                  [NoCall EXCEPT !.endpoint = endpoint, !.body = <<body>>,
                                 !.out = out, !.resp = <<resp>>]]
    /\ UNCHANGED <<clock, issued, owner>>

\* The entry point builds `task` and calls ExecuteTask on it, which finds the
\* Agent, sets the Task running and calls agent.Execute.
Dispatch(h, endpoint, body, type, data) ==
    LET task == NewTask(type, data) IN
    /\ type \in DOMAIN agents
    /\ hpc' = [hpc EXCEPT ![h] = "agent"]
    /\ call' = [call EXCEPT ![h] =
                  [NoCall EXCEPT !.endpoint = endpoint, !.body = <<body>>,
                                 !.task = <<[task EXCEPT !.Status = TaskRunning]>>,
                                 !.serial = Len(issued) + 1,
                                 !.nbuilt = 1,
                                 !.invoked = {type}]]
    /\ issued' = Append(issued, task.ID)
    /\ UNCHANGED <<clock, owner>>

\* System.ProcessUserRequest(ctx, request, workspaceDir), up to agent.Execute.
ProcessUserRequest(h, endpoint, body, request, workspaceDir) ==
    IF isTerminalIntent(request)
    THEN Dispatch(h, endpoint, body, TerminalAgent,
                  {<<"instruction", request>>, <<"workspace_dir", workspaceDir>>})
    ELSE Dispatch(h, endpoint, body, PlanningAgent,
                  {<<"request", request>>, <<"workspace_dir", workspaceDir>>})

\* Server.handleProcessRequest(w, r), up to agent.Execute.
handleProcessRequest(h, body) ==
    LET req == Decode(body) IN
    /\ hpc[h] = "idle"
    /\ Len(issued) < MaxBuilt
    /\ IF req.err
       THEN /\ Answer(h, "/api/process", body, Nil,
                      sendError(<<"Invalid request body">>, StatusBadRequest))
            /\ UNCHANGED llmModel
       ELSE /\ llmModel' = IF req.Model # <<>> THEN req.Model ELSE llmModel
            /\ ProcessUserRequest(h, "/api/process", body, req.Request,
                                  req.WorkspaceDir)
    /\ UNCHANGED <<sysVars, raceVars, cmdVars, fileVars, procVars>>

SlashFix == <<"/","f","i","x">>

\* handleFixCommand, handleRunCommand, handleExplainCommand and
\* handleCreateProjectCommand, each up to agent.Execute.
handleFixCommand(h, endpoint, body, errorOutput, workspaceDir) ==
    Dispatch(h, endpoint, body, DebugAgent,
             {<<"error_output", errorOutput>>, <<"workspace_dir", workspaceDir>>})

\* Mutant of handleRunCommand: the Task is a Planning Task.
handleRunCommand_Planning(h, endpoint, body, instruction, workspaceDir) ==
    Dispatch(h, endpoint, body, PlanningAgent,
             {<<"instruction", instruction>>, <<"workspace_dir", workspaceDir>>})

handleRunCommand(h, endpoint, body, instruction, workspaceDir) ==
    Dispatch(h, endpoint, body, TerminalAgent,
             {<<"instruction", instruction>>, <<"workspace_dir", workspaceDir>>})

handleExplainCommand(h, endpoint, body, target, workspaceDir) ==
    Dispatch(h, endpoint, body, PlanningAgent,
             {<<"target", target>>, <<"workspace_dir", workspaceDir>>})

handleCreateProjectCommand(h, endpoint, body, description, workspaceDir) ==
    Dispatch(h, endpoint, body, PlanningAgent,
             {<<"description", description>>, <<"workspace_dir", workspaceDir>>})

\* Mutant of HandleCommand: an unlisted verb is run as a command.
HandleCommand_DefaultRun(h, endpoint, body, command, args, workspaceDir) ==
    CASE command = SlashFix -> handleFixCommand(h, endpoint, body, args, workspaceDir)
      [] command = SlashExplain ->
            handleExplainCommand(h, endpoint, body, args, workspaceDir)
      [] command = SlashCreateProject ->
            handleCreateProjectCommand(h, endpoint, body, args, workspaceDir)
      [] OTHER -> handleRunCommand(h, endpoint, body, args, workspaceDir)

\* System.HandleCommand(ctx, command, args, workspaceDir), up to
\* agent.Execute; with an unlisted verb, together with the handler's answer.
HandleCommand(h, endpoint, body, command, args, workspaceDir) ==
    CASE command = SlashFix -> handleFixCommand(h, endpoint, body, args, workspaceDir)
      [] command = SlashRun -> handleRunCommand(h, endpoint, body, args, workspaceDir)
      [] command = SlashExplain ->
            handleExplainCommand(h, endpoint, body, args, workspaceDir)
      [] command = SlashCreateProject ->
            handleCreateProjectCommand(h, endpoint, body, args, workspaceDir)
      [] OTHER ->
            LET err == <<"unknown command: ">> \o command IN
            Answer(h, endpoint, body, <<[res |-> Nil, err |-> err]>>,
                   sendError(err, StatusInternalServerError))

\* Server.handleCommand(w, r), up to agent.Execute.
handleCommand(h, body) ==
    LET req == Decode(body) IN
    /\ hpc[h] = "idle"
    /\ Len(issued) < MaxBuilt
    /\ IF req.err
       THEN Answer(h, "/api/command", body, Nil,
                   sendError(<<"Invalid request body">>, StatusBadRequest))
       ELSE HandleCommand(h, "/api/command", body, req.Command, req.Args,
                          req.WorkspaceDir)
    /\ UNCHANGED llmModel
    /\ UNCHANGED <<sysVars, raceVars, cmdVars, fileVars, procVars>>

\* The tail both handlers share: the error check and the response.
ServeResult(out) ==
    IF out.err # <<>>
    THEN sendError(out.err, StatusInternalServerError)
    ELSE sendResponse(out.res[1])

\* agent.Execute returns in handler h: the rest of ExecuteTask, of the entry
\* point and of the handler.
EntryAgentReturn(h, env) ==
    /\ hpc[h] = "agent"
    /\ env \in EnvsFor(call[h].task[1].Type)
    /\ LET c == call[h]
           task == c.task[1]
           x == AgentRun(task, env)
           failed == x.err # <<>>
           taskResult == IF failed THEN <<TaskResult(FALSE, NilMap, x.err)>>
                                   ELSE x.res
           \* ExecuteTask returns (task.Result, err)
           executed == [res |-> taskResult, err |-> x.err]
           \* ProcessUserRequest wraps the error of its planning Task
           out == IF c.endpoint = "/api/process" /\ task.Type = PlanningAgent
                     /\ failed
                  THEN [res |-> Nil,
                        err |-> <<"failed to process request: ">> \o x.err]
                  ELSE executed
       IN  /\ call' = [call EXCEPT ![h] =
                         [c EXCEPT !.task = <<[task EXCEPT
                                       !.Status = IF failed THEN TaskFailed
                                                  ELSE TaskCompleted,
                                       !.Result = taskResult]>>,
                                   !.invoked = c.invoked \cup x.used,
                                   !.asked = x.asked,
                                   !.env = <<env>>,
                                   !.out = <<out>>,
                                   !.resp = <<ServeResult(out)>>]]
           /\ IF failed
              THEN UNCHANGED <<results, owner>>
              ELSE /\ results' = (task.ID :> x.res[1]) @@ results
                   /\ owner' = (task.ID :> c.serial) @@ owner
    /\ hpc' = [hpc EXCEPT ![h] = "done"]
    /\ UNCHANGED <<clock, llmModel, issued>>
    /\ UNCHANGED <<kind, status, result, taskQueue, pc, op, cur, chain, idx,
                 chainResults, ret, chainRet, calls, agentCalls, invoked,
                 submitLog, deqLog, consumerDone, raceVars, cmdVars, fileVars,
                 procVars>>

\* The connection of handler h is finished; the goroutine can serve again.
Close(h) ==
    /\ hpc[h] = "done"
    /\ hpc' = [hpc EXCEPT ![h] = "idle"]
    /\ call' = [call EXCEPT ![h] = NoCall]
    /\ UNCHANGED <<clock, llmModel, issued, owner>>
    /\ UNCHANGED <<sysVars, raceVars, cmdVars, fileVars, procVars>>

\* Time passes.
Tick ==
    /\ clock < MaxClock
    /\ clock' = clock + 1
    /\ UNCHANGED <<llmModel, hpc, call, issued, owner>>
    /\ UNCHANGED <<sysVars, raceVars, cmdVars, fileVars, procVars>>

\* NewSystem: the results map is empty, no Task exists yet.
EntryInit ==
    /\ kind = [t \in Tasks |-> PlanningAgent]
    /\ status = [t \in Tasks |-> TaskPending]
    /\ result = [t \in Tasks |-> Nil]
    /\ results = <<>>
    /\ taskQueue = <<>>
    /\ pc = [th \in Threads |-> "idle"]
    /\ op = [th \in Threads |-> IF th = Consumer THEN "processTasks" ELSE "none"]
    /\ cur = [th \in Threads |-> 0]
    /\ chain = [c \in Callers |-> <<>>]
    /\ idx = [c \in Callers |-> 0]
    /\ chainResults = [c \in Callers |-> <<>>]
    /\ ret = [th \in Threads |-> NoRet]
    /\ chainRet = [c \in Callers |-> NoChainRet]
    /\ calls = 0
    /\ agentCalls = [t \in Tasks |-> 0]
    /\ invoked = [c \in Callers |-> {}]
    /\ submitLog = <<>>
    /\ deqLog = <<>>
    /\ consumerDone = 0
    /\ ExtInit

\* The request texts the sequential client sends: every keyword, alone and
\* inside a sentence, in lower and in upper case, and texts without one.
NoKeyword ==
    { <<"s","h","e","l">>, <<"e","x","e","c","u","t">>, <<"r","u","n">>,
      <<"h","e","l","p"," ","m","e">>,
      SlashExplain \o <<" ","x">>, SlashCreateProject \o <<" ","y">>, <<>> }
RouteRequests ==
    LET Please == <<"p","l","s"," ">>
        Now == <<" ","n","o","w">>
        KeywordSet == {keywords[i] : i \in 1..Len(keywords)}
    IN  KeywordSet
        \cup {Please \o k \o Now : k \in KeywordSet}
        \cup {Please \o ToUpper(k) \o Now : k \in KeywordSet}
        \cup NoKeyword
        \cup {Please \o m \o Now : m \in NoKeyword}

Verbs ==
    { SlashFix, SlashRun, SlashExplain, SlashCreateProject,
      <<"/","f","r","o","b","n","i","c","a","t","e">>, ToUpper(SlashRun), <<>> }

ProcessBodies ==
    {ProcessBody(r, <<>>) : r \in RouteRequests}
    \cup {ProcessBody(SlashExplain \o <<" ","x">>, <<"m">>), Malformed}
CommandBodies ==
    {CommandBody(v, a) : v \in Verbs, a \in {<<"l","s">>, <<>>}} \cup {Malformed}

\* One client sends requests one after the other to handler goroutine 1.
RouteNext ==
    \/ \E body \in ProcessBodies : handleProcessRequest(1, body)
    \/ \E body \in CommandBodies : handleCommand(1, body)
    \/ \E env \in Envs : EntryAgentReturn(1, env)
    \/ Close(1)
    \/ Tick

RouteSpec == EntryInit /\ [][RouteNext]_vars

\* ------------------------------------------------- claims about entry points
\* The call of handler h went through route (ProcessUserRequest).
Routed(h) ==
    /\ call[h].endpoint = "/api/process"
    /\ call[h].body[1].wellFormed
RawRequest(h) == Field(call[h].body[1], "request")
HasKeyword(text) == \E i \in 1..Len(keywords) : Contains(text, keywords[i])
\* The one Task the call of handler h built.
TheTask(h) == call[h].task[1]
Executed(h) == TheTask(h).Status \in {TaskCompleted, TaskFailed}

\* C12: route dispatches by keyword containment: when the lower-cased
\* request contains a phrase of the terminal-intent list, the call builds and
\* executes exactly one Task, a Terminal Task whose instruction is the
\* request, and the Planning Agent is not invoked; when it contains none, the
\* call builds and executes exactly one Task, a Planning Task that carries
\* the raw request, and the Terminal Agent is not invoked.
C12_RouteByKeyword ==
    \A h \in Handlers :
        Routed(h) =>
            /\ call[h].nbuilt = 1
            /\ call[h].task # Nil
            /\ hpc[h] = "done" => Executed(h)
            /\ IF HasKeyword(ToLower(RawRequest(h)))
               THEN /\ TheTask(h).Type = TerminalAgent
                    /\ Has(TheTask(h).Data, "instruction")
                    /\ Get(TheTask(h).Data, "instruction") = RawRequest(h)
                    /\ TerminalAgent \in call[h].invoked
                    /\ PlanningAgent \notin call[h].invoked
               ELSE /\ TheTask(h).Type = PlanningAgent
                    /\ Has(TheTask(h).Data, "request")
                    /\ Get(TheTask(h).Data, "request") = RawRequest(h)
                    /\ PlanningAgent \in call[h].invoked
                    /\ TerminalAgent \notin call[h].invoked

\* A routed call has returned whose request holds a keyword in upper case
\* only, and its Task was a Terminal Task.
C12_Witness ==
    \E h \in Handlers :
        /\ hpc[h] = "done"
        /\ Routed(h)
        /\ ~HasKeyword(RawRequest(h))
        /\ HasKeyword(ToLower(RawRequest(h)))
        /\ Executed(h)
        /\ TheTask(h).Type = TerminalAgent

\* The Planning Agent takes its decomposition branch on this request.
Decomposes(request) ==
    ~HasPrefix(request, SlashCreateProject) /\ ~HasPrefix(request, SlashExplain)

\* C13: the decomposition is never auto-executed: a route call on the
\* Planning path builds exactly one Task, invokes nothing but the Planning
\* Agent and the language model (no File Agent, Terminal Agent, Command
\* Executor or File Manager), and when the language model answered a
\* decomposition, the result data is that text, unchanged.
C13_PlanNotAutoExecuted ==
    \A h \in Handlers :
        Routed(h) /\ TheTask(h).Type = PlanningAgent =>
            /\ call[h].nbuilt = 1
            /\ hpc[h] = "done" => Executed(h)
            /\ call[h].invoked \subseteq {PlanningAgent, "llm"}
            /\ hpc[h] = "done" /\ Decomposes(RawRequest(h))
                 /\ call[h].env[1].llm.ok =>
                    /\ call[h].out[1].err = <<>>
                    /\ call[h].out[1].res[1].Success
                    /\ call[h].out[1].res[1].Data
                         = {<<"plan", call[h].env[1].llm.text>>}

\* A route call on the Planning path has returned a decomposition that lists
\* a terminal and a file subtask.
C13_Witness ==
    \E h \in Handlers :
        /\ hpc[h] = "done"
        /\ Routed(h)
        /\ TheTask(h).Type = PlanningAgent
        /\ Decomposes(RawRequest(h))
        /\ call[h].env[1].llm.ok
        /\ call[h].env[1].llm.text = SubtaskPlan
        /\ call[h].out[1].res[1].Data = {<<"plan", SubtaskPlan>>}

\* The call of handler h went through dispatchCommand (HandleCommand).
Dispatched(h) ==
    /\ call[h].endpoint = "/api/command"
    /\ call[h].body[1].wellFormed
Verb(h) == Field(call[h].body[1], "command")
Args(h) == Field(call[h].body[1], "args")
ListedVerbs == {SlashFix, SlashRun, SlashExplain, SlashCreateProject}
\* The documented kind and payload key of every verb.
DocumentedKind(verb) ==
    CASE verb = SlashFix -> DebugAgent
      [] verb = SlashRun -> TerminalAgent
      [] verb = SlashExplain -> PlanningAgent
      [] verb = SlashCreateProject -> PlanningAgent
DocumentedKey(verb) ==
    CASE verb = SlashFix -> "error_output"
      [] verb = SlashRun -> "instruction"
      [] verb = SlashExplain -> "target"
      [] verb = SlashCreateProject -> "description"

\* C14: dispatchCommand maps each of the four verbs to one Task that it
\* passes to executeTask, of the documented kind and with the documented
\* payload key set to args: /fix -> Debug, error_output; /run -> Terminal,
\* instruction; /explain -> Planning, target; /create-project -> Planning,
\* description.
C14_VerbMapping ==
    \A h \in Handlers :
        Dispatched(h) /\ Verb(h) \in ListedVerbs =>
            /\ call[h].nbuilt = 1
            /\ call[h].task # Nil
            /\ TheTask(h).Status # TaskPending
            /\ hpc[h] = "done" => Executed(h)
            /\ TheTask(h).Type = DocumentedKind(Verb(h))
            /\ TheTask(h).Type \in call[h].invoked
            /\ Has(TheTask(h).Data, DocumentedKey(Verb(h)))
            /\ Get(TheTask(h).Data, DocumentedKey(Verb(h))) = Args(h)
            /\ \A p \in TheTask(h).Data :
                  p[1] \in {DocumentedKey(Verb(h)), "workspace_dir"}

\* A /run command with a non-empty argument has been executed as a Terminal
\* Task.
C14_Witness ==
    \E h \in Handlers :
        /\ hpc[h] = "done"
        /\ Dispatched(h)
        /\ Verb(h) = SlashRun
        /\ Args(h) # <<>>
        /\ Executed(h)
        /\ TheTask(h).Type = TerminalAgent
        /\ Get(TheTask(h).Data, "instruction") = Args(h)

\* Handler h takes a request for dispatchCommand with an unlisted verb.
UnknownVerbCall(h) ==
    /\ hpc[h] = "idle"
    /\ Dispatched(h)'
    /\ Verb(h)' \notin ListedVerbs

\* C15: dispatchCommand with a verb other than the four returns a hard
\* failure that names the verb and changes nothing else: no Task is built,
\* no Agent is invoked, no id is drawn, and the result store and the queue
\* are what they were before the call.
C15_UnknownVerb ==
    [][\A h \in Handlers :
          UnknownVerbCall(h) =>
              /\ hpc'[h] = "done"
              /\ call'[h].out # Nil
              /\ call'[h].out[1].res = Nil
              /\ call'[h].out[1].err # <<>>
              /\ Contains(call'[h].out[1].err, Verb(h)')
              /\ call'[h].resp[1].Status = StatusInternalServerError
              /\ call'[h].nbuilt = 0
              /\ call'[h].task = Nil
              /\ call'[h].invoked = {}
              /\ issued' = issued
              /\ results' = results
              /\ owner' = owner
              /\ taskQueue' = taskQueue
              /\ llmModel' = llmModel
              /\ \A g \in Handlers \ {h} : call'[g] = call[g] /\ hpc'[g] = hpc[g]
      ]_vars

\* An unlisted, non-empty verb has been answered while the result store
\* holds the result of an earlier Task.
C15_Witness ==
    \E h \in Handlers :
        /\ hpc[h] = "done"
        /\ Dispatched(h)
        /\ Verb(h) \notin ListedVerbs
        /\ Verb(h) # <<>>
        /\ call[h].out[1].err # <<>>
        /\ DOMAIN results # {}

\* What a client reads from a response body: a field the encoder dropped is
\* empty.
DecodeResponse(body) ==
    TaskResult(Get(body, "success"),
               IF Has(body, "data") THEN Get(body, "data") ELSE NilMap,
               IF Has(body, "error") THEN Get(body, "error") ELSE <<>>)

\* C20: POST /process and POST /command mirror the orchestrator's outcome:
\* a hard failure of route or dispatchCommand gives status 500 with
\* success=false and the error message; otherwise the response is not a 500
\* and carries the success, data and error of the returned TaskResult (a soft
\* failure included); a body that cannot be decoded is rejected without the
\* orchestrator being called.
C20_ResponseMirrorsOutcome ==
    \A h \in Handlers :
        hpc[h] = "done" =>
            LET c == call[h]
                r == c.resp[1]
            IN  IF ~c.body[1].wellFormed
                THEN /\ c.out = Nil
                     /\ c.nbuilt = 0
                     /\ c.invoked = {}
                     /\ r.Status = StatusBadRequest
                     /\ ~DecodeResponse(r.Body).Success
                ELSE /\ c.out # Nil
                     /\ IF c.out[1].err # <<>>
                        THEN /\ r.Status = StatusInternalServerError
                             /\ DecodeResponse(r.Body)
                                  = TaskResult(FALSE, NilMap, c.out[1].err)
                        ELSE /\ r.Status # StatusInternalServerError
                             /\ DecodeResponse(r.Body) = c.out[1].res[1]

\* A call has ended in a soft failure: no error was returned, the result
\* says success=false, and the response is not a 500.
C20_Witness ==
    \E h \in Handlers :
        /\ hpc[h] = "done"
        /\ call[h].out # Nil
        /\ call[h].out[1].err = <<>>
        /\ ~call[h].out[1].res[1].Success
        /\ call[h].resp[1].Status = StatusOK
        /\ ~DecodeResponse(call[h].resp[1].Body).Success

\* -------------------------------------------------------- concurrent clients
\* Several clients send requests at the same time: every handler goroutine
\* serves on its own, and the clock ticks when it ticks.
IdNext ==
    \/ \E h \in Handlers,
          body \in { ProcessBody(<<"b","a","s","h">>, <<>>),
                     ProcessBody(<<"h","e","l","p"," ","m","e">>, <<>>) } :
          handleProcessRequest(h, body)
    \/ \E h \in Handlers : handleCommand(h, CommandBody(SlashRun, <<"l","s">>))
    \/ \E h \in Handlers, env \in Envs : EntryAgentReturn(h, env)
    \/ \E h \in Handlers : Close(h)
    \/ Tick

IdSpec == EntryInit /\ [][IdNext]_vars

\* C19: Task ids are unique: any two Tasks built by the entry points, also
\* by concurrent callers at the same clock reading, have different ids, (so
\* that) a results entry always holds the result of the one Task it was
\* first written for.
C19_UniqueTaskIds ==
    /\ \A i \in 1..Len(issued), j \in 1..Len(issued) :
          i # j => issued[i] # issued[j]
    /\ \A h \in Handlers :
          hpc[h] = "done" /\ call[h].out[1].err = <<>> =>
              owner[TheTask(h).ID] = call[h].serial

\* -------------------------------------------------------- Command Executor
\* A caller uses the Command Executor directly: one command (ExecuteCommand)
\* or a list (ExecuteCommands).  What a command does is fixed by its text;
\* whether the shell can be started is the host's state.
CommandTexts == { <<"true">>, <<"false">>, <<"warn">> }

\* cmd.Run() for exec.Command("sh", "-c", command)
Run(command) ==
    IF ~shellPresent THEN RunNoShell
    ELSE CASE command = <<"true">>  -> RunClean
           [] command = <<"false">> -> RunExit1
           [] OTHER                 -> RunWarn

\* CommandExecutorImpl.ExecuteCommands(commands, workingDir): the call.  An
\* empty list returns at once.
ExecuteCommands(list) ==
    /\ cmdPc \in {"idle", "returned"}
    /\ commands' = list
    /\ cmdResults' = <<>>
    /\ ran' = <<>>
    /\ IF list = <<>>
       THEN /\ cmdPc' = "returned"
            /\ cmdRet' = <<[results |-> <<>>, err |-> <<>>]>>
       ELSE /\ cmdPc' = "loop"
            /\ cmdRet' = Nil
    /\ UNCHANGED <<shellPresent, lastCall>>
    /\ UNCHANGED <<sysVars, raceVars, entryVars, fileVars, procVars>>

\* Mutant of CommandLoop: the loop goes on after a failed command.
CommandLoop_NoBreak ==
    /\ cmdPc = "loop"
    /\ LET i == Len(ran) + 1
           command == commands[i]
           run == Run(command)
           x == ExecuteCommand(command, Dir, run)
       IN  /\ ran' = Append(ran, [command |-> command, run |-> run])
           /\ lastCall' = <<[run |-> run, ret |-> x]>>
           /\ IF x.err # <<>>
              THEN /\ cmdRet' = <<[results |-> cmdResults, err |-> x.err]>>
                   /\ cmdPc' = "returned"
                   /\ UNCHANGED cmdResults
              ELSE /\ cmdResults' = Append(cmdResults, x.res[1])
                   /\ IF i = Len(commands)
                      THEN /\ cmdRet' = <<[results |-> cmdResults', err |-> <<>>]>>
                           /\ cmdPc' = "returned"
                      ELSE /\ cmdPc' = "loop"
                           /\ cmdRet' = Nil
    /\ UNCHANGED <<shellPresent, commands>>
    /\ UNCHANGED <<sysVars, raceVars, entryVars, fileVars, procVars>>

\* One turn of the loop of ExecuteCommands, and the return when it was the
\* last one.
CommandLoop ==
    /\ cmdPc = "loop"
    /\ LET i == Len(ran) + 1
           command == commands[i]
           run == Run(command)
           x == ExecuteCommand(command, Dir, run)
       IN  /\ ran' = Append(ran, [command |-> command, run |-> run])
           /\ lastCall' = <<[run |-> run, ret |-> x]>>
           /\ IF x.err # <<>>
              THEN /\ cmdRet' = <<[results |-> cmdResults, err |-> x.err]>>
                   /\ cmdPc' = "returned"
                   /\ UNCHANGED cmdResults
              ELSE /\ cmdResults' = Append(cmdResults, x.res[1])
                   /\ IF x.res[1].Status = "failed" \/ i = Len(commands)
                      THEN /\ cmdRet' = <<[results |-> cmdResults', err |-> <<>>]>>
                           /\ cmdPc' = "returned"
                      ELSE /\ cmdPc' = "loop"
                           /\ cmdRet' = Nil
    /\ UNCHANGED <<shellPresent, commands>>
    /\ UNCHANGED <<sysVars, raceVars, entryVars, fileVars, procVars>>

\* A caller runs one command: CommandExecutorImpl.ExecuteCommand.
RunOne(command) ==
    /\ cmdPc \in {"idle", "returned"}
    /\ lastCall' = <<[run |-> Run(command),
                      ret |-> ExecuteCommand(command, Dir, Run(command))]>>
    /\ UNCHANGED <<shellPresent, cmdPc, commands, cmdResults, ran, cmdRet>>
    /\ UNCHANGED <<sysVars, raceVars, entryVars, fileVars, procVars>>

\* The host loses or regains its shell.
ShellChange ==
    /\ shellPresent' = ~shellPresent
    /\ UNCHANGED <<cmdPc, commands, cmdResults, ran, cmdRet, lastCall>>
    /\ UNCHANGED <<sysVars, raceVars, entryVars, fileVars, procVars>>

CmdNext ==
    \/ \E list \in UNION {[1..n -> CommandTexts] : n \in 0..MaxCommands} :
          ExecuteCommands(list)
    \/ CommandLoop
    \/ \E command \in CommandTexts : RunOne(command)
    \/ ShellChange

CmdSpec == EntryInit /\ [][CmdNext]_vars

Failed(i) == ran[i].run.err # <<>>

\* C16: runSequence is fail-fast: the commands run in list order, there is
\* one record per command run, a record is failed exactly when its command
\* failed, every record but possibly the last is completed, no command is
\* run after a failed one, and the returned list ends with the first failed
\* record or, when none failed, has the length of the whole list.
C16_FailFast ==
    /\ Len(ran) <= Len(commands)
    /\ Len(cmdResults) = Len(ran)
    /\ \A i \in 1..Len(ran) :
          /\ ran[i].command = commands[i]
          /\ cmdResults[i].Command = commands[i]
          /\ cmdResults[i].Status = IF Failed(i) THEN "failed" ELSE "completed"
    /\ \A i \in 1..(Len(ran) - 1) :
          ~Failed(i) /\ cmdResults[i].Status = "completed"
    /\ cmdPc = "loop" => Len(ran) < Len(commands) /\ \A i \in 1..Len(ran) : ~Failed(i)
    /\ cmdPc = "returned" =>
          /\ cmdRet # Nil
          /\ cmdRet[1].err = <<>>
          /\ cmdRet[1].results = cmdResults
          /\ \/ Len(cmdResults) >= 1 /\ Failed(Len(cmdResults))
             \/ Len(cmdResults) = Len(commands)

\* A list of three commands has returned two records, the second failed;
\* the third command was never run.
C16_Witness ==
    /\ cmdPc = "returned"
    /\ commands = << <<"true">>, <<"false">>, <<"true">> >>
    /\ Len(cmdRet[1].results) = 2
    /\ cmdRet[1].results[1].Status = "completed"
    /\ cmdRet[1].results[2].Status = "failed"
    /\ Len(ran) = 2

\* C17: run distinguishes two error outcomes: a command that exits non-zero
\* does not raise and yields a record with status=failed; a failure to start
\* the shell, and only that, is returned to the caller as a hard error
\* instead of a record.
C17_SpawnFailurePropagates ==
    lastCall # Nil =>
        LET run == lastCall[1].run
            out == lastCall[1].ret
        IN  /\ run.err # <<>> /\ run # RunNoShell =>
                  /\ out.err = <<>>
                  /\ out.res # Nil
                  /\ out.res[1].Status = "failed"
            /\ run = RunNoShell => out.err # <<>> /\ out.res = Nil
            /\ out.err # <<>> => run = RunNoShell

\* ------------------------------------------------------------- File Agent
\* The file tree of the host (POSIX): a path is the sequence of its
\* components, `dirs` the directories and `files` the regular files with
\* their contents.  Every node's parent is a directory.
IsDir(path) == path \in dirs
IsFile(path) == Has(files, path)
PathExists(path) == IsDir(path) \/ IsFile(path)
Prefixes(path) == {SubSeq(path, 1, n) : n \in 1..Len(path)}
\* filepath.Dir(path)
Parent(path) == SubSeq(path, 1, Len(path) - 1)

\* The errno of resolving `path` (os.Stat): a regular file on the way is
\* ENOTDIR, a missing component is ENOENT.
Stat(path) ==
    IF \E q \in Prefixes(Parent(path)) : IsFile(q) THEN "ENOTDIR"
    ELSE IF PathExists(path) THEN "ok"
    ELSE "ENOENT"

\* errors as texts
PathError(syscall, path, errno) == <<syscall>> \o path \o <<": ", errno>>

\* filepath.Join(workspaceDir, path)
Join(workspaceDir, path) == workspaceDir \o path

\* FileManagerImpl.FileExists(path): !os.IsNotExist(err)
FileExists(path) == Stat(path) # "ENOENT"

\* os.MkdirAll(dir, 0755): the error (empty: none) and the directories after.
MkdirAll(dir) ==
    IF \E q \in Prefixes(dir) : IsFile(q)
    THEN [err |-> PathError("mkdir ", dir, "ENOTDIR"), dirs |-> dirs]
    ELSE [err |-> <<>>, dirs |-> dirs \cup Prefixes(dir)]

Put(m, k, v) == {p \in m : p[1] # k} \cup {<<k, v>>}
Without(m, k) == {p \in m : p[1] # k}

\* FileManagerImpl.CreateFile(path, content): the error and the tree after.
CreateFile(path, content) ==
    LET made == MkdirAll(Parent(path)) IN
    IF made.err # <<>>
    THEN [err |-> <<"failed to create directory for ">> \o path \o <<": ">>
                  \o made.err,
          dirs |-> dirs, files |-> files]
    ELSE IF path \in made.dirs
    THEN [err |-> <<"failed to create file ">> \o path \o <<": ">>
                  \o PathError("open ", path, "EISDIR"),
          dirs |-> made.dirs, files |-> files]
    ELSE [err |-> <<>>, dirs |-> made.dirs, files |-> Put(files, path, content)]

\* FileManagerImpl.UpdateFile(path, content)
UpdateFile(path, content) ==
    IF ~FileExists(path)
    THEN [err |-> <<"file does not exist: ">> \o path,
          dirs |-> dirs, files |-> files]
    ELSE IF Stat(path) # "ok"
    THEN [err |-> PathError("open ", path, Stat(path)),
          dirs |-> dirs, files |-> files]
    ELSE IF IsDir(path)
    THEN [err |-> PathError("open ", path, "EISDIR"),
          dirs |-> dirs, files |-> files]
    ELSE [err |-> <<>>, dirs |-> dirs, files |-> Put(files, path, content)]

\* FileManagerImpl.DeleteFile(path): os.Remove
DeleteFile(path) ==
    IF Stat(path) # "ok"
    THEN [err |-> PathError("remove ", path, Stat(path)),
          dirs |-> dirs, files |-> files]
    ELSE IF IsFile(path)
    THEN [err |-> <<>>, dirs |-> dirs, files |-> Without(files, path)]
    ELSE IF \E q \in dirs \cup {p[1] : p \in files} :
                Len(q) > Len(path) /\ SubSeq(q, 1, Len(path)) = path
    THEN [err |-> PathError("remove ", path, "ENOTEMPTY"),
          dirs |-> dirs, files |-> files]
    ELSE [err |-> <<>>, dirs |-> dirs \ {path}, files |-> files]

\* FileManagerImpl.ReadFile(path)
ReadFile(path) ==
    IF Stat(path) # "ok"
    THEN [err |-> PathError("open ", path, Stat(path)), content |-> <<>>]
    ELSE IF IsDir(path)
    THEN [err |-> PathError("read ", path, "EISDIR"), content |-> <<>>]
    ELSE [err |-> <<>>, content |-> Get(files, path)]

FileDone(success, data, error, tree) ==
    [res |-> <<TaskResult(success, data, error)>>, err |-> <<>>,
     used |-> {"fileManager"}, dirs |-> tree.dirs, files |-> tree.files]
FileHard(error) ==
    [res |-> Nil, err |-> error, used |-> {}, dirs |-> dirs, files |-> files]

\* FileAgentImpl.handleCreateFile
handleCreateFile(task) ==
    IF ~Has(task.Data, "path") THEN FileHard(<<"path not found in task data">>)
    ELSE IF ~Has(task.Data, "workspace_dir")
    THEN FileHard(<<"workspace_dir not found in task data">>)
    ELSE LET content == IF Has(task.Data, "content")
                        THEN Get(task.Data, "content") ELSE <<>>
             fullPath == Join(Get(task.Data, "workspace_dir"), Get(task.Data, "path"))
             x == CreateFile(fullPath, content)
         IN  IF x.err # <<>> THEN FileDone(FALSE, NilMap, x.err, x)
             ELSE FileDone(TRUE, {<<"path", fullPath>>, <<"created", TRUE>>}, <<>>, x)

\* FileAgentImpl.handleUpdateFile
handleUpdateFile(task) ==
    IF ~Has(task.Data, "path") THEN FileHard(<<"path not found in task data">>)
    ELSE IF ~Has(task.Data, "content")
    THEN FileHard(<<"content not found for update operation">>)
    ELSE IF ~Has(task.Data, "workspace_dir")
    THEN FileHard(<<"workspace_dir not found in task data">>)
    ELSE LET fullPath == Join(Get(task.Data, "workspace_dir"), Get(task.Data, "path"))
             x == UpdateFile(fullPath, Get(task.Data, "content"))
         IN  IF x.err # <<>> THEN FileDone(FALSE, NilMap, x.err, x)
             ELSE FileDone(TRUE, {<<"path", fullPath>>, <<"updated", TRUE>>}, <<>>, x)

\* Mutant of handleDeleteFile: the File Manager's error is propagated.
handleDeleteFile_Propagate(task) ==
    IF ~Has(task.Data, "path") THEN FileHard(<<"path not found in task data">>)
    ELSE IF ~Has(task.Data, "workspace_dir")
    THEN FileHard(<<"workspace_dir not found in task data">>)
    ELSE LET fullPath == Join(Get(task.Data, "workspace_dir"), Get(task.Data, "path"))
             x == DeleteFile(fullPath)
         IN  IF x.err # <<>> THEN FileHard(x.err)
             ELSE FileDone(TRUE, {<<"path", fullPath>>, <<"deleted", TRUE>>}, <<>>, x)

\* FileAgentImpl.handleDeleteFile
handleDeleteFile(task) ==
    IF ~Has(task.Data, "path") THEN FileHard(<<"path not found in task data">>)
    ELSE IF ~Has(task.Data, "workspace_dir")
    THEN FileHard(<<"workspace_dir not found in task data">>)
    ELSE LET fullPath == Join(Get(task.Data, "workspace_dir"), Get(task.Data, "path"))
             x == DeleteFile(fullPath)
         IN  IF x.err # <<>> THEN FileDone(FALSE, NilMap, x.err, x)
             ELSE FileDone(TRUE, {<<"path", fullPath>>, <<"deleted", TRUE>>}, <<>>, x)

\* FileAgentImpl.handleReadFile
handleReadFile(task) ==
    IF ~Has(task.Data, "path") THEN FileHard(<<"path not found in task data">>)
    ELSE IF ~Has(task.Data, "workspace_dir")
    THEN FileHard(<<"workspace_dir not found in task data">>)
    ELSE LET fullPath == Join(Get(task.Data, "workspace_dir"), Get(task.Data, "path"))
             x == ReadFile(fullPath)
             same == [dirs |-> dirs, files |-> files]
         IN  IF x.err # <<>> THEN FileDone(FALSE, NilMap, x.err, same)
             ELSE FileDone(TRUE, {<<"path", fullPath>>, <<"content", x.content>>},
                           <<>>, same)

\* FileAgentImpl.Execute(ctx, task): the result, the error, and the tree after.
FileExecute(task) ==
    IF ~Has(task.Data, "operation")
    THEN FileHard(<<"operation data not found in task">>)
    ELSE LET operation == Get(task.Data, "operation") IN
         CASE operation = <<"create">> -> handleCreateFile(task)
           [] operation = <<"update">> -> handleUpdateFile(task)
           [] operation = <<"delete">> -> handleDeleteFile(task)
           [] operation = <<"read">>   -> handleReadFile(task)
           [] OTHER -> FileHard(<<"unknown file operation: ">> \o operation)

\* The File Tasks a caller hands to the File Agent.
FileTaskData ==
    LET PathPool == { <<"a">>, <<"a", "b">>, <<"a", "b", "c">>, <<"b">> }
        Contents == { <<"x">>, <<"y">> }
        Operations ==
            { <<"create">>, <<"update">>, <<"delete">>, <<"read">>, <<"chmod">> }
        WellFormed ==
            { { <<"operation", o>>, <<"path", p>>, <<"content", c>>,
                <<"workspace_dir", Dir>> } :
                o \in Operations, p \in PathPool, c \in Contents }
    IN  WellFormed
        \cup { Without(d, k) :
                 d \in {x \in WellFormed : Get(x, "path") = <<"a">>
                                            /\ Get(x, "content") = <<"x">>},
                 k \in {"operation", "path", "content", "workspace_dir"} }

\* The File Agent executes a File Task with payload `data`.
FileAgentExecute(data) ==
    LET task == [NewTask(FileAgent, data) EXCEPT !.Status = TaskRunning]
        x == FileExecute(task)
    IN  /\ dirs' = x.dirs
        /\ files' = x.files
        /\ lastFile' = <<[data |-> data, dirs |-> dirs, files |-> files,
                          out |-> [res |-> x.res, err |-> x.err],
                          used |-> x.used]>>
        /\ UNCHANGED <<sysVars, raceVars, entryVars, cmdVars, procVars>>

FileNext == \E data \in FileTaskData : FileAgentExecute(data)

FileSpec == EntryInit /\ [][FileNext]_vars

\* The last File Task: its operation, its full path, and the tree before it.
LastOp == Get(lastFile[1].data, "operation")
LastPath == Join(Get(lastFile[1].data, "workspace_dir"), Get(lastFile[1].data, "path"))
WellFormedLast ==
    /\ lastFile # Nil
    /\ \A k \in {"operation", "path", "content", "workspace_dir"} :
          Has(lastFile[1].data, k)
ExistedBefore(path) == path \in lastFile[1].dirs \/ Has(lastFile[1].files, path)
TreeUnchanged == dirs = lastFile[1].dirs /\ files = lastFile[1].files
NotFoundError(error) == Contains(error, <<"file does not exist: ">>)

\* C18: on the file tree, create on a path whose parent directory does not
\* exist (and can be made: no part of the path is a regular file) succeeds,
\* and afterwards the directory and the file exist; update on a path that
\* does not exist returns success=false with a not-found error and leaves
\* the file tree unchanged, the file not created.
C18_CreateMakesParentUpdateNeedsFile ==
    WellFormedLast =>
        /\ ( /\ LastOp = <<"create">>
             /\ Parent(LastPath) \notin lastFile[1].dirs
             /\ \A q \in Prefixes(LastPath) : ~Has(lastFile[1].files, q) )
           => ( /\ lastFile[1].out.err = <<>>
                /\ lastFile[1].out.res[1].Success
                /\ IsDir(Parent(LastPath))
                /\ IsFile(LastPath)
                /\ Get(files, LastPath) = Get(lastFile[1].data, "content") )
        /\ ( LastOp = <<"update">> /\ ~ExistedBefore(LastPath) )
           => ( /\ lastFile[1].out.err = <<>>
                /\ ~lastFile[1].out.res[1].Success
                /\ NotFoundError(lastFile[1].out.res[1].Error)
                /\ TreeUnchanged
                /\ ~PathExists(LastPath) )

\* ------------------------------------------------------------------ shutdown
\* main(): the server serves until SIGINT or SIGTERM arrives; then
\* srv.Shutdown(ctx) runs with a deadline; when main returns, or logger.Fatal
\* exits, the process and every goroutine in it are gone.  A caller thread
\* inside ExecuteTask is a handler goroutine serving a request, a caller in
\* QueueTask is a submitter; the consumer is the goroutine NewSystem started.

\* The connections http.Server.Shutdown waits for: the handlers that have
\* not returned yet.
ActiveHandlers == {c \in Callers : op[c] = "ExecuteTask" /\ pc[c] = "agent"}

\* <-quit: the signal arrives and main calls srv.Shutdown(ctx), which closes
\* the listeners first.
Signal ==
    /\ mainPc = "serving"
    /\ mainPc' = "shutdown"
    /\ UNCHANGED <<sysVars, raceVars, entryVars, cmdVars, fileVars>>

\* srv.Shutdown(ctx) returns nil once no connection is active; main logs
\* "Server exited" and returns.
Shutdown ==
    /\ mainPc = "shutdown"
    /\ ActiveHandlers = {}
    /\ mainPc' = "exited"
    /\ UNCHANGED <<sysVars, raceVars, entryVars, cmdVars, fileVars>>

\* The deadline passes while a connection is still active: srv.Shutdown
\* returns the context's error and logger.Fatal exits the process.
DeadlineExceeded ==
    /\ mainPc = "shutdown"
    /\ ActiveHandlers # {}
    /\ mainPc' = "forced"
    /\ UNCHANGED <<sysVars, raceVars, entryVars, cmdVars, fileVars>>

\* The process: requests are taken while the listeners are open; every
\* goroutine runs as long as the process lives.
ShutNext ==
    \/ /\ mainPc = "serving"
       /\ \E c \in Callers, t \in Tasks : ExecuteTask(c, t)
    \/ /\ mainPc \in {"serving", "shutdown"}
       /\ \/ \E c \in Callers, t \in Tasks : QueueTask(c, t)
          \/ \E c \in Callers : QueueSend(c)
          \/ processTasks
          \/ \E th \in Threads, o \in {"ok", "soft", "hard"} : AgentReturn(th, o)
    \/ Signal
    \/ Shutdown
    \/ DeadlineExceeded

ShutSpec == Init /\ [][ShutNext]_vars

\* Lemma: main returns from a graceful shutdown only when every handler
\* goroutine has returned from ExecuteTask.
HandlersDrained == mainPc = "exited" => ActiveHandlers = {}

\* C21: graceful shutdown: after the shutdown signal no new request is
\* accepted, and the process exits, unless the deadline has passed, only
\* when no ExecuteTask call is in flight, neither one started by a request nor
\* the one the background consumer is running.
C21_GracefulShutdown ==
    /\ [](mainPc = "exited" => \A th \in Threads : pc[th] # "agent")
    /\ [][mainPc # "serving" =>
            \A c \in Callers :
                (op'[c] = "ExecuteTask" /\ pc'[c] = "agent") => pc[c] = "agent"]_vars

\* ------------------------------------------------ claims about hard failures
\* C22: a hard failure of executeTask changes nothing in the shared state
\* except marking that Task Failed with its failure result: when the Agent
\* raised it, the Task becomes Failed and carries a result with
\* Success = FALSE and the message, and the result store, the queue and every
\* other Task are what they were before; when no Agent exists for the kind,
\* no status, no result and no entry of the result store changes at all.
C22_HardFailureFrame ==
    [][\A th \in Threads :
          /\ (Returns(th) /\ ret'[th].err # Nil) =>
                /\ status'[cur[th]] = TaskFailed
                /\ result'[cur[th]] = <<TaskResult(FALSE, Nil, ret'[th].err)>>
                /\ results' = results
                /\ taskQueue' = taskQueue
                /\ \A t \in Tasks \ {cur[th]} :
                      status'[t] = status[t] /\ result'[t] = result[t]
          /\ (~Returns(th) /\ ret'[th] # ret[th] /\ ret'[th].err # Nil) =>
                UNCHANGED <<status, result, results>>
      ]_vars

\* ExecuteTask has returned a hard failure of the Agent for a Task that is
\* now Failed and has no entry in the result store, while the store holds
\* the result of another Task.
C22_Witness ==
    \E th \in Threads :
        /\ ret[th].task \in Tasks
        /\ kind[ret[th].task] \in DOMAIN agents
        /\ ret[th].err # Nil
        /\ status[ret[th].task] = TaskFailed
        /\ results[ret[th].task] = Nil
        /\ \E t \in Tasks \ {ret[th].task} : results[t] # Nil

\* ------------------------------------------------- claims about the Agents
\* The TaskResult the executed Task of handler h carries.
TheResult(h) == TheTask(h).Result[1]

\* C23: every TaskResult produced by an Agent or by executeTask has data
\* only when success is true and an error only when success is false: a
\* result with success=false carries no data and carries a populated error.
C23_DataXorError ==
    \A h \in Handlers :
        (hpc[h] = "done" /\ call[h].task # Nil) =>
            /\ TheResult(h).Data # NilMap => TheResult(h).Success
            /\ TheResult(h).Error # <<>> => ~TheResult(h).Success
            /\ ~TheResult(h).Success =>
                  TheResult(h).Data = NilMap /\ TheResult(h).Error # <<>>

\* The call of handler h ran a command for a Terminal Task.
RanCommand(h) ==
    /\ hpc[h] = "done"
    /\ call[h].task # Nil
    /\ TheTask(h).Type = TerminalAgent
    /\ "commandExec" \in call[h].invoked
\* What cmd.Run() did in that call.
TheRun(h) == call[h].env[1].run

\* C24 as stated: the result of a Terminal Task has success=true exactly when
\* the executed command's captured stderr is empty.
C24_SuccessIffStderrEmpty ==
    \A h \in Handlers :
        RanCommand(h) => (TheResult(h).Success <=> TheRun(h).stderr = <<>>)

\* C24 as amended: the result of a Terminal Task has success=true exactly
\* when the command ran without a process error (it was started and exited
\* with status 0) and its captured stderr is empty.
C24_SuccessIffCleanRun ==
    \A h \in Handlers :
        RanCommand(h) =>
            (TheResult(h).Success <=>
                (TheRun(h).err = <<>> /\ TheRun(h).stderr = <<>>))

\* A Terminal Task whose command exited non-zero without writing to stderr
\* has returned success=false.
C24_Witness ==
    \E h \in Handlers :
        /\ RanCommand(h)
        /\ TheRun(h) = RunQuiet
        /\ ~TheResult(h).Success

\* ------------------------------------------- direct callers of ExecuteTask
\* A caller builds a Task itself and calls ExecuteTask(ctx, task): the
\* payload is whatever the caller put there.
TaskPayloads(type) ==
    LET Workspace == { {}, {<<"workspace_dir", Dir>>} }
        Keyed(k, values) == {{}} \cup {{<<k, v>>} : v \in values}
        Main ==
            CASE type = TerminalAgent ->
                    Keyed("instruction", {<<"l","i","s","t">>, <<>>})
              [] type = DebugAgent ->
                    Keyed("error_output", {<<"p","a","n","i","c">>, <<>>})
              [] type = PlanningAgent ->
                    Keyed("request",
                          { SlashExplain \o <<" ","x">>, SlashExplain,
                            SlashCreateProject \o <<" ","y">>,
                            <<"x", " ">> \o SlashExplain,
                            <<"h","e","l","p">>, <<>> })
                    \cup {{<<"target", <<"x">> >>}, {<<"description", <<"y">> >>}}
    IN  {d \cup w : d \in Main, w \in Workspace}

\* ExecuteTask(ctx, task) on a Task of a registered kind, from the call to
\* the return, when the Agent's collaborators do `env`.
ExecuteDirect(type, data, env) ==
    LET task == NewTask(type, data)
        x == AgentRun(task, env)
        failed == x.err # <<>>
        taskResult == IF failed THEN <<TaskResult(FALSE, NilMap, x.err)>>
                                ELSE x.res
    IN  /\ hpc[1] \in {"idle", "done"}
        /\ Len(issued) < MaxDirect
        /\ env \in EnvsFor(type)
        /\ hpc' = [hpc EXCEPT ![1] = "done"]
        /\ call' = [call EXCEPT ![1] =
                      [NoCall EXCEPT
                          !.endpoint = "ExecuteTask",
                          !.task = <<[task EXCEPT
                                        !.Status = IF failed THEN TaskFailed
                                                   ELSE TaskCompleted,
                                        !.Result = taskResult]>>,
                          !.serial = Len(issued) + 1,
                          !.nbuilt = 1,
                          !.invoked = {type} \cup x.used,
                          !.asked = x.asked,
                          !.env = <<env>>,
                          !.out = <<[res |-> taskResult, err |-> x.err]>>]]
        /\ issued' = Append(issued, task.ID)
        /\ IF failed
           THEN UNCHANGED <<results, owner>>
           ELSE /\ results' = (task.ID :> x.res[1]) @@ results
                /\ owner' = (task.ID :> Len(issued) + 1) @@ owner
        /\ UNCHANGED <<clock, llmModel>>
        /\ UNCHANGED <<kind, status, result, taskQueue, pc, op, cur, chain, idx,
                       chainResults, ret, chainRet, calls, agentCalls, invoked,
                       submitLog, deqLog, consumerDone, raceVars, cmdVars,
                       fileVars, procVars>>

AgentNext ==
    \/ \E type \in {TerminalAgent, DebugAgent, PlanningAgent},
          env \in Envs :
          \E data \in TaskPayloads(type) : ExecuteDirect(type, data, env)
    \/ Tick

AgentSpec == EntryInit /\ [][AgentNext]_vars

\* An ExecuteTask call on a Task of kind `type` has returned in handler h.
Ran(h, type) ==
    /\ hpc[h] = "done"
    /\ call[h].task # Nil
    /\ TheTask(h).Type = type
AskedOps(h) == [i \in 1..Len(call[h].asked) |-> call[h].asked[i].op]

\* C25: the Terminal Agent asks the language model for the command before
\* it runs anything: with the instruction key missing, or when command
\* generation fails, the outcome is a hard failure and the Command Executor
\* is never invoked; a command is run only after the one generation request
\* has answered; and when the generated command runs and fails, the outcome
\* is no hard failure but a result with success=false that carries the
\* generated command, the captured stdout and the captured stderr.
C25_TerminalFailureTiers ==
    \A h \in Handlers :
        Ran(h, TerminalAgent) =>
            LET c == call[h]
                out == c.out[1]
                run == c.env[1].run
            IN  /\ ~Has(TheTask(h).Data, "instruction") =>
                      /\ out.err # <<>>
                      /\ c.asked = <<>>
                      /\ "commandExec" \notin c.invoked
                /\ (Has(TheTask(h).Data, "instruction") /\ ~c.env[1].llm.ok) =>
                      /\ out.err # <<>>
                      /\ AskedOps(h) = <<"GenerateCommand">>
                      /\ "commandExec" \notin c.invoked
                /\ out.err # <<>> => TheTask(h).Status = TaskFailed
                /\ "commandExec" \in c.invoked =>
                      /\ AskedOps(h) = <<"GenerateCommand">>
                      /\ c.env[1].llm.ok
                      /\ out.err = <<>>
                      /\ Get(out.res[1].Data, "command") = c.env[1].llm.text
                /\ ("commandExec" \in c.invoked /\ run.err # <<>>) =>
                      /\ ~out.res[1].Success
                      /\ Get(out.res[1].Data, "output") = run.stdout
                      /\ Contains(Get(out.res[1].Data, "error"), run.stderr)

\* A Terminal Task whose generated command exited non-zero with output on
\* stderr has returned a result with success=false and no error.
C25_Witness ==
    \E h \in Handlers :
        /\ Ran(h, TerminalAgent)
        /\ "commandExec" \in call[h].invoked
        /\ call[h].env[1].run = RunExit1
        /\ call[h].out[1].err = <<>>
        /\ ~call[h].out[1].res[1].Success
        /\ Get(call[h].out[1].res[1].Data, "command") = call[h].env[1].llm.text

\* ------------------------------------------------ claims about the File Agent
FileOperations == { <<"create">>, <<"update">>, <<"delete">>, <<"read">> }
\* The last File Task lacks a key every operation needs, or names no
\* operation of the four.
MalformedLast ==
    \/ \E k \in {"operation", "path", "workspace_dir"} : ~Has(lastFile[1].data, k)
    \/ LastOp \notin FileOperations
\* Every key is there and the operation is one of the four.
ProperLast == WellFormedLast /\ LastOp \in FileOperations

\* C26: the File Agent separates malformed tasks from failed operations: a
\* File Task without the operation, path or workspaceDir key, or with an
\* operation outside create, update, delete and read, ends in a hard failure
\* without any File Manager call and with the file tree unchanged; on a
\* well-formed task the File Manager is called and its error is never
\* propagated: the outcome is a result, with success=false and the error
\* text when the operation failed (as read and delete of a missing path do).
C26_MalformedVersusFailed ==
    lastFile # Nil =>
        /\ MalformedLast =>
              /\ lastFile[1].out.err # <<>>
              /\ lastFile[1].out.res = Nil
              /\ lastFile[1].used = {}
              /\ TreeUnchanged
        /\ ProperLast =>
              /\ lastFile[1].out.err = <<>>
              /\ lastFile[1].out.res # Nil
              /\ lastFile[1].used = {"fileManager"}
              /\ ~lastFile[1].out.res[1].Success =>
                    /\ lastFile[1].out.res[1].Error # <<>>
                    /\ lastFile[1].out.res[1].Data = NilMap
              /\ (LastOp \in {<<"read">>, <<"delete">>} /\ ~ExistedBefore(LastPath)) =>
                    ~lastFile[1].out.res[1].Success

\* A well-formed delete of a path that does not exist has returned a result
\* with success=false and the File Manager's error, and no hard failure.
C26_Witness ==
    /\ lastFile # Nil
    /\ ProperLast
    /\ LastOp = <<"delete">>
    /\ ~ExistedBefore(LastPath)
    /\ lastFile[1].out.err = <<>>
    /\ ~lastFile[1].out.res[1].Success
    /\ Contains(lastFile[1].out.res[1].Error, <<"ENOENT">>)

\* C27: the Debug Agent makes its two language-model requests in order,
\* error analysis first and fix generation second, the second given the
\* first's answer, and a failure of either is a hard failure: without
\* errorOutput no request is made; when the analysis fails the fix request
\* is never made; a result {analysis, fix, file} with success=true is
\* returned exactly when both answered; and the file not being located
\* (empty file and content) is no failure.
C27_DebugTwoCalls ==
    \A h \in Handlers :
        Ran(h, DebugAgent) =>
            LET c == call[h]
                out == c.out[1]
                env == c.env[1]
                keyed == Has(TheTask(h).Data, "error_output")
            IN  /\ ~keyed =>
                      out.err # <<>> /\ c.asked = <<>>
                /\ (keyed /\ ~env.llm.ok) =>
                      out.err # <<>> /\ AskedOps(h) = <<"AnalyzeError">>
                /\ (keyed /\ env.llm.ok) =>
                      /\ AskedOps(h) = <<"AnalyzeError", "Chat fix">>
                      /\ c.asked[2].input[1] = env.llm.text
                /\ (keyed /\ env.llm.ok /\ ~env.llm2.ok) => out.err # <<>>
                /\ Len(c.asked) >= 1 =>
                      c.asked[1].input
                         = <<Get(TheTask(h).Data, "error_output"), <<>> >>
                /\ out.err # <<>> =>
                      /\ TheTask(h).Status = TaskFailed
                      /\ ~out.res[1].Success
                /\ out.err = <<>> =>
                      /\ keyed /\ env.llm.ok /\ env.llm2.ok
                      /\ out.res[1].Success
                      /\ out.res[1].Data
                           = { <<"analysis", env.llm.text>>,
                               <<"fix", env.llm2.text>>, <<"file", <<>> >> }
                /\ (keyed /\ env.llm.ok /\ env.llm2.ok) => out.err = <<>>

\* A Debug Task has failed hard after its analysis request failed, and
\* no fix request was made.
C27_Witness ==
    \E h \in Handlers :
        /\ Ran(h, DebugAgent)
        /\ Has(TheTask(h).Data, "error_output")
        /\ ~call[h].env[1].llm.ok
        /\ call[h].env[1].llm2.ok
        /\ call[h].out[1].err # <<>>
        /\ AskedOps(h) = <<"AnalyzeError">>

\* The request text of the Planning Task of handler h.
TheRequest(h) == Get(TheTask(h).Data, "request")
\* The language-model operation the prefix of a request text selects.
SelectedOp(request) ==
    IF HasPrefix(request, SlashCreateProject) THEN "PlanProject"
    ELSE IF HasPrefix(request, SlashExplain) THEN "Chat explain"
    ELSE "Chat decompose"

\* C28: the Planning Agent makes exactly one language-model request per
\* execution of a Task that carries a request text, chosen by the text's
\* prefix: project-plan generation for /create-project, an explanation
\* request for /explain, the decomposition prompt otherwise; and a project
\* plan that cannot be parsed ends in a hard failure whose message contains
\* the raw text, never in a success result.
C28_OneRequestByPrefix ==
    \A h \in Handlers :
        (Ran(h, PlanningAgent) /\ Has(TheTask(h).Data, "request")) =>
            LET c == call[h]
                out == c.out[1]
                reply == c.env[1].llm
            IN  /\ AskedOps(h) = <<SelectedOp(TheRequest(h))>>
                /\ (reply.ok /\ SelectedOp(TheRequest(h)) = "Chat explain") =>
                      /\ out.err = <<>>
                      /\ out.res[1].Data = {<<"explanation", reply.text>>}
                /\ (reply.ok /\ SelectedOp(TheRequest(h)) = "Chat decompose") =>
                      /\ out.err = <<>>
                      /\ out.res[1].Data = {<<"plan", reply.text>>}
                /\ ( /\ SelectedOp(TheRequest(h)) = "PlanProject"
                     /\ reply.ok
                     /\ reply.text # ProjectJSON ) =>
                      /\ out.err # <<>>
                      /\ Contains(out.err, reply.text)
                      /\ ~out.res[1].Success
                      /\ TheTask(h).Status = TaskFailed

\* A /create-project execution whose plan text is a JSON array, not a
\* ProjectPlan, has ended in a hard failure that quotes the text.
C28_Witness ==
    \E h \in Handlers :
        /\ Ran(h, PlanningAgent)
        /\ Has(TheTask(h).Data, "request")
        /\ HasPrefix(TheRequest(h), SlashCreateProject)
        /\ call[h].env[1].llm = [ok |-> TRUE, text |-> SubtaskPlan]
        /\ call[h].out[1].err # <<>>
        /\ Contains(call[h].out[1].err, SubtaskPlan)
        /\ Len(call[h].asked) = 1

\* ------------------------------------------ claims about dispatched commands
\* Every language-model request the Agent of handler h's Task could make
\* was answered, and with a parseable plan where a plan is parsed.
ModelAnswered(h) ==
    /\ call[h].env[1].llm.ok
    /\ TheTask(h).Type = DebugAgent => call[h].env[1].llm2.ok
    /\ Verb(h) = SlashCreateProject => call[h].env[1].llm.text = ProjectJSON

\* C29: every Task that dispatchCommand builds for a recognised verb carries
\* the payload keys its Agent requires: for /fix, /run, /explain and
\* /create-project, when every language-model request is answered (and the
\* plan text parses), the call returns no hard failure, the Task ends
\* Completed, and for /explain the explanation is the result data.
C29_DispatchedTasksWellFormed ==
    \A h \in Handlers :
        ( /\ hpc[h] = "done"
          /\ Dispatched(h)
          /\ Verb(h) \in ListedVerbs
          /\ ModelAnswered(h) ) =>
            /\ call[h].out[1].err = <<>>
            /\ TheTask(h).Status = TaskCompleted
            /\ Verb(h) = SlashExplain =>
                  /\ call[h].out[1].res[1].Success
                  /\ call[h].out[1].res[1].Data
                       = {<<"explanation", call[h].env[1].llm.text>>}

\* ----------------------------------------------------------- model selection
\* Clients send /process requests that name a model, at the same time, to
\* the handler goroutines; all of them share the one language-model client.
ModelNext ==
    \/ \E h \in Handlers,
          body \in { ProcessBody(<<"b","a","s","h">>, <<"m1">>),
                     ProcessBody(<<"h","e","l","p"," ","m","e">>, <<"m2">>),
                     ProcessBody(<<"h","e","l","p"," ","m","e">>, <<>>) } :
          handleProcessRequest(h, body)
    \/ \E h \in Handlers, env \in Envs : EntryAgentReturn(h, env)
    \/ \E h \in Handlers : Close(h)
    \/ Tick

ModelSpec == EntryInit /\ [][ModelNext]_vars

\* C30: model selection is per request in effect: every language-model
\* request made for a POST /process request that supplies a model uses that
\* model, also while other /process requests that supply a different model
\* are being served.
C30_ModelPerRequest ==
    \A h \in Handlers :
        (hpc[h] = "done" /\ Routed(h) /\ Field(call[h].body[1], "model") # <<>>) =>
            \A i \in 1..Len(call[h].asked) :
                call[h].asked[i].model = Field(call[h].body[1], "model")
====
